---- MODULE Spec2Model ----
(***************************************************************************)
(* Verification model of the voice-pipeline evaluation harness:            *)
(*   - AudioFixtureLoader.streamAudio / loadBuffer (test/harness/          *)
(*     audio-loader.ts),                                                   *)
(*   - ConversationRunner.runConversation / processTurn (test/harness/     *)
(*     conversation-runner.ts),                                            *)
(*   - calculateStats and LatencyMeasurer (test/harness/                   *)
(*     latency-measurer.ts),                                               *)
(*   - TranscriptValidator.validate (test/harness/transcript-validator.ts),*)
(* and, beside the harness, the WAV codec (WavUtils of the fixture         *)
(* recorder, parseWavHeader / extractSamples), AudioComparator.compare and *)
(* the mock cascade pipeline of packages/core/test/pipeline.test.ts.       *)
(* Ten state machines share the module: StreamSpec (one streamAudio        *)
(* generator and its consumer), CacheSpec (overlapping loadBuffer calls),  *)
(* Spec (the conversation driver against an arbitrary pipeline),           *)
(* MeasurerSpec (calls on one LatencyMeasurer), MeasureSpec (overlapping   *)
(* measure() calls on one LatencyMeasurer), StatsSpec (calculateStats and  *)
(* the driver's percentile on a list of values), ValidatorSpec (validate   *)
(* on two texts), CodecSpec (a buffer encoded or given, then parsed and    *)
(* decoded), ComparatorSpec (compare on two buffers) and PipelineSpec (one *)
(* iteration of process() and calls of interrupt()).                       *)
(* JavaScript's run-to-completion scheduling is kept: an action is the     *)
(* code executed between two suspension points (await / yield).            *)
(***************************************************************************)
EXTENDS Integers, Sequences, FiniteSets, TLC

VARIABLES
    \* ---- streamAudio (audio-loader.ts:207-244) ----
    sFixture,      \* AudioFixture: [sampleRate, bitDepth, channels]
    sOptions,      \* StreamOptions: [chunkDurNum, realtime, startOffset, endOffset]
    container,     \* layout of the file at fixture.path: [extraBytes, dataLen, readable]
    gPc,           \* position of the generator body
    gOffset,       \* the loop variable `offset`
    gChunk,        \* the chunk computed by the current loop iteration
    assembled,     \* concatenation of every chunk the consumer received
    lastChunk,     \* the chunk most recently received by the consumer
    \* ---- loadBuffer cache (audio-loader.ts:70, 188-202) ----
    cache,         \* Map<string, ArrayBuffer>: path -> buffer identity (0 = absent)
    callerPc,      \* position of each loadBuffer call
    callerPath,    \* filePath argument of each call
    callerBuf,     \* buffer held / returned by each call (0 = none)
    reads,         \* number of fs.readFile calls issued per path
    allocs,        \* per path, number of ArrayBuffers allocated from its bytes;
                   \* the n-th buffer allocated for a path is identified by n
    firstStored,   \* per path, the first buffer ever stored in the cache (0 = none)
    \* ---- runConversation / processTurn (conversation-runner.ts:91-242) ----
    fixture,       \* ConversationFixture.turns: sequence of [role, isInterruption]
    timeoutMs,     \* RunOptions.timeoutMs
    pc,            \* position of runConversation
    turnIdx,       \* index of the manifest turn the for-loop is at
    results,       \* results: TurnResult[]
    outcome,       \* per result, the branch of processTurn that produced it
    processCalls,  \* manifest indices for which pipeline.process() was called
    iter,          \* per turn, state of the iteration of pipeline.process()
    pulls,         \* per turn, number of next() calls made on its output sequence
    outputChunks,  \* per turn, length of processTurn's outputChunks array
    interruptCalls,\* per turn, number of pipeline.interrupt() calls
    ack,           \* state of the promise returned by pipeline.interrupt()
    timer,         \* per turn, ms left on the setTimeout of line 217 (-1: none/fired)
    elapsed,       \* performance.now() - startTime of the current turn
    verdict,       \* expectedBehavior and the two verdicts, once returned
    interruptCalledAt, \* value of `elapsed` when pipeline.interrupt() was last called
    \* ---- LatencyMeasurer (latency-measurer.ts:85-316) ----
    mClock,        \* performance.now()
    mCurrent,      \* currentMeasurement (NoMeasurement = null)
    mSamples,      \* samples: LatencyMetrics[]
    mReturn,       \* how the most recent call on the measurer ended, and its value
    \* ---- calculateStats (latency-measurer.ts:58-80) ----
    statValues,    \* the argument `values`
    stats,         \* the StatsSummary returned (NoStats before the call)
    p95LatencyMs,  \* percentile(latencies, 95) of the driver on the same values
    \* ---- TranscriptValidator.validate (transcript-validator.ts:74-121) ----
    vActual,       \* the argument `actual`, as its whitespace-separated tokens
    vExpected,     \* the argument `expected`, likewise
    vOptions,      \* the argument `options`
    vResult,       \* the ValidationResult returned (NoResult before the call)
    \* ---- createMockCascadePipeline (pipeline.test.ts:14-41) ----
    pInput,        \* chunks the audio input has still to yield
    pTtsLeft,      \* chunks the TTS adapter has still to yield
    pInterrupted,  \* the closure variable `interrupted`
    pPc,           \* position of the generator body of process()
    pYielded,      \* chunks process() has yielded
    pInterruptCalls,         \* calls of interrupt() so far (counted up to 2)
    pYieldedAfterInterrupt,  \* chunks yielded after the first call of interrupt()
    \* ---- WAV codec (WavUtils, parseWavHeader, extractSamples) ----
    wArgs,         \* the arguments of createWavBuffer (None: a given file is studied)
    wFile,         \* the layout of the given file (None: an encoded buffer is studied)
    wBuffer,       \* the ArrayBuffer built or given (None: not built)
    wThrown,       \* the error createWavBuffer threw ("none": none)
    wHeader,       \* what parseWavHeader(wBuffer) returned or threw (None: not called)
    wSamples,      \* what extractSamples(wBuffer) returned or threw (None: not called)
    \* ---- AudioComparator.compare ----
    cAudioA,       \* the argument audioA
    cAudioB,       \* the argument audioB
    cOptions,      \* the argument options
    cResult,       \* the ComparisonResult returned (None before the call)
    \* ---- LatencyMeasurer.measure (latency-measurer.ts:302-315) ----
    measureCalls   \* per call of measure(): its position, when it started and ended,
                   \* what it returned, whether another call was in flight with it

streamVars == <<sFixture, sOptions, container, gPc, gOffset, gChunk, assembled, lastChunk>>
cacheVars == <<cache, callerPc, callerPath, callerBuf, reads, allocs, firstStored>>
driverVars == <<fixture, timeoutMs, pc, turnIdx, results, outcome, processCalls, iter,
                pulls, outputChunks, interruptCalls, ack, timer, elapsed, verdict,
                interruptCalledAt>>
measurerVars == <<mClock, mCurrent, mSamples, mReturn>>
statsVars == <<statValues, stats, p95LatencyMs>>
validatorVars == <<vActual, vExpected, vOptions, vResult>>
pipelineVars == <<pInput, pTtsLeft, pInterrupted, pPc, pYielded, pInterruptCalls,
                  pYieldedAfterInterrupt>>
codecVars == <<wArgs, wFile, wBuffer, wThrown, wHeader, wSamples>>
comparatorVars == <<cAudioA, cAudioB, cOptions, cResult>>
measureVars == <<measureCalls>>
toolVars == <<pipelineVars, codecVars, comparatorVars, measureVars>>
instrumentVars == <<measurerVars, statsVars, validatorVars, toolVars>>
harnessVars == <<streamVars, cacheVars, driverVars, measurerVars, statsVars, validatorVars,
                 measureVars>>
vars == <<streamVars, cacheVars, driverVars, instrumentVars>>

Min(a, b) == IF a < b THEN a ELSE b
Max(a, b) == IF a > b THEN a ELSE b

(***************************************************************************)
(* Bounds of the model.                                                    *)
(***************************************************************************)
MaxPayload == 4        \* payload (data chunk) lengths 0..MaxPayload bytes
MaxExtraPayload == 2   \* body length of an extra chunk between fmt and data
DurDen == 2            \* chunkDurationMs is drawn from k/DurDen milliseconds
MaxChunkDurNum == 3    \* k ranges over 1..MaxChunkDurNum
MaxOffsetMs == 2       \* startOffset / endOffset range over 0..MaxOffsetMs

SampleRates == {1000}
BitDepths == {8, 16}
ChannelCounts == {1, 2}
NoOffset == 0 - 1      \* endOffset === undefined

(***************************************************************************)
(* streamAudio                                                             *)
(***************************************************************************)
headerSize == 44

\* The bytes of a file are identified by their 0-based position in the file.
\* RIFF header (12) + fmt chunk (8 + 16) + optional extra chunk + data chunk
\* header (8) + payload.
DataOffset(c) == 12 + 24 + c.extraBytes + 8
FileLength(c) == DataOffset(c) + c.dataLen
FileBytes(c) == [p \in 1..FileLength(c) |-> p - 1]
Payload(c) == [p \in 1..c.dataLen |-> DataOffset(c) + p - 1]

\* ArrayBuffer.prototype.slice(begin, end) for 0 <= begin, 0 <= end.
Slice(buf, begin, end) == SubSeq(buf, Min(begin, Len(buf)) + 1, Min(end, Len(buf)))

\* const audioData = buffer.slice(headerSize)
AudioData(buf) == Slice(buf, headerSize, Len(buf))

\* bytesPerMs = sampleRate * (bitDepth / 8) * channels / 1000, as the exact
\* rational BytesPerMsNum(f) / 1000.
BytesPerMsNum(f) == f.sampleRate * (f.bitDepth \div 8) * f.channels

\* Math.floor(bytesPerMs * chunkDurationMs), chunkDurationMs = chunkDurNum / DurDen
ChunkSize(f, o) == (BytesPerMsNum(f) * o.chunkDurNum) \div (1000 * DurDen)

\* Math.floor(startOffset * bytesPerMs)
StartByte(f, o) == (BytesPerMsNum(f) * o.startOffset) \div 1000

\* endOffset !== undefined ? Math.floor(endOffset * bytesPerMs) : audioData.byteLength
EndByte(f, o, audioData) ==
    IF o.endOffset # NoOffset
    THEN (BytesPerMsNum(f) * o.endOffset) \div 1000
    ELSE Len(audioData)

Fixtures == [sampleRate : SampleRates, bitDepth : BitDepths, channels : ChannelCounts]
StreamOptions == [chunkDurNum : 1..MaxChunkDurNum, realtime : BOOLEAN,
                  startOffset : 0..MaxOffsetMs, endOffset : {NoOffset} \cup 0..MaxOffsetMs]
ExtraChunkSizes == {0} \cup {8 + 2 * n : n \in 0..(MaxExtraPayload \div 2)}
Containers == [extraBytes : ExtraChunkSizes, dataLen : 0..MaxPayload, readable : BOOLEAN]

StreamIdle ==
    /\ sFixture = [sampleRate |-> 1000, bitDepth |-> 8, channels |-> 1]
    /\ sOptions = [chunkDurNum |-> 1, realtime |-> FALSE, startOffset |-> 0,
                   endOffset |-> NoOffset]
    /\ container = [extraBytes |-> 0, dataLen |-> 0, readable |-> TRUE]
    /\ gPc = "done"
    /\ gOffset = 0
    /\ gChunk = <<>>
    /\ assembled = <<>>
    /\ lastChunk = <<>>

\* streamAudio(fixture, options) returns a generator object; nothing has run.
StreamInit ==
    /\ sFixture \in Fixtures
    /\ sOptions \in StreamOptions
    /\ container \in Containers
    /\ gPc = "created"
    /\ gOffset = 0
    /\ gChunk = <<>>
    /\ assembled = <<>>
    /\ lastChunk = <<>>

AudioOf(c) == AudioData(FileBytes(c))

\* First next(): the body runs up to `await this.loadBuffer(fixture.path)`.
ConsumerStarts ==
    /\ gPc = "created"
    /\ gPc' = "loading"
    /\ UNCHANGED <<sFixture, sOptions, container, gOffset, gChunk, assembled, lastChunk>>
    /\ UNCHANGED <<cacheVars, driverVars, instrumentVars>>

\* loadBuffer resolves: header skipped, chunk size and range computed, loop entered.
BufferLoaded ==
    /\ gPc = "loading"
    /\ container.readable
    /\ gOffset' = StartByte(sFixture, sOptions)
    /\ gPc' = "loop"
    /\ UNCHANGED <<sFixture, sOptions, container, gChunk, assembled, lastChunk>>
    /\ UNCHANGED <<cacheVars, driverVars, instrumentVars>>

\* loadBuffer rejects (fs.readFile fails): the generator throws to its consumer.
BufferLoadFails ==
    /\ gPc = "loading"
    /\ ~container.readable
    /\ gPc' = "failed"
    /\ UNCHANGED <<sFixture, sOptions, container, gOffset, gChunk, assembled, lastChunk>>
    /\ UNCHANGED <<cacheVars, driverVars, instrumentVars>>

\* Loop head `offset < endByte` and the slice of line 236.
LoopIteration ==
    /\ gPc = "loop"
    /\ LET audioData == AudioOf(container)
           endByte == EndByte(sFixture, sOptions, audioData)
           chunkSize == ChunkSize(sFixture, sOptions)
       IN IF gOffset < endByte
          THEN /\ gChunk' = Slice(audioData, gOffset, Min(gOffset + chunkSize, endByte))
               /\ gPc' = IF sOptions.realtime THEN "sleeping" ELSE "yielding"
          ELSE /\ gChunk' = <<>>
               /\ gPc' = "done"
    /\ UNCHANGED <<sFixture, sOptions, container, gOffset, assembled, lastChunk>>
    /\ UNCHANGED <<cacheVars, driverVars, instrumentVars>>

\* await sleep(chunkDurationMs) in real-time mode.
SleepElapses ==
    /\ gPc = "sleeping"
    /\ gPc' = "yielding"
    /\ UNCHANGED <<sFixture, sOptions, container, gOffset, gChunk, assembled, lastChunk>>
    /\ UNCHANGED <<cacheVars, driverVars, instrumentVars>>

\* yield chunk: the consumer receives it; the generator is suspended at the yield.
YieldChunk ==
    /\ gPc = "yielding"
    /\ assembled' = assembled \o gChunk
    /\ lastChunk' = gChunk
    /\ gPc' = "suspended"
    /\ UNCHANGED <<sFixture, sOptions, container, gOffset, gChunk>>
    /\ UNCHANGED <<cacheVars, driverVars, instrumentVars>>

\* The consumer pulls again: the loop increment `offset += chunkSize` runs.
ConsumerPulls ==
    /\ gPc = "suspended"
    /\ gOffset' = gOffset + ChunkSize(sFixture, sOptions)
    /\ gPc' = "loop"
    /\ UNCHANGED <<sFixture, sOptions, container, gChunk, assembled, lastChunk>>
    /\ UNCHANGED <<cacheVars, driverVars, instrumentVars>>

StreamNext ==
    \/ ConsumerStarts
    \/ BufferLoaded
    \/ BufferLoadFails
    \/ LoopIteration
    \/ SleepElapses
    \/ YieldChunk
    \/ ConsumerPulls

(***************************************************************************)
(* loadBuffer and its cache                                                *)
(***************************************************************************)
NumCallers == 3        \* overlapping loadBuffer calls
NumPaths == 2          \* distinct file paths

Callers == 1..NumCallers
Paths == 1..NumPaths

CacheIdle ==
    /\ cache = [p \in Paths |-> 0]
    /\ callerPc = [c \in Callers |-> "returned"]
    /\ callerPath = [c \in Callers |-> 1]
    /\ callerBuf = [c \in Callers |-> 0]
    /\ reads = [p \in Paths |-> 0]
    /\ allocs = [p \in Paths |-> 0]
    /\ firstStored = [p \in Paths |-> 0]

\* private cache = new Map<string, ArrayBuffer>()
CacheInit ==
    /\ cache = [p \in Paths |-> 0]
    /\ callerPc = [c \in Callers |-> "idle"]
    /\ callerPath \in [Callers -> Paths]
    /\ callerBuf = [c \in Callers |-> 0]
    /\ reads = [p \in Paths |-> 0]
    /\ allocs = [p \in Paths |-> 0]
    /\ firstStored = [p \in Paths |-> 0]

\* if (this.cache.has(filePath))
CacheHas(m, p) == m[p] # 0

\* loadBuffer(filePath) up to its first suspension: a hit returns the cached
\* buffer, a miss issues fs.readFile and suspends.
LoadBufferCall(c) ==
    /\ callerPc[c] = "idle"
    /\ LET p == callerPath[c]
       IN IF CacheHas(cache, p)
          THEN /\ callerBuf' = [callerBuf EXCEPT ![c] = cache[p]]
               /\ callerPc' = [callerPc EXCEPT ![c] = "returned"]
               /\ reads' = reads
          ELSE /\ callerBuf' = callerBuf
               /\ callerPc' = [callerPc EXCEPT ![c] = "reading"]
               /\ reads' = [reads EXCEPT ![p] = @ + 1]
    /\ UNCHANGED <<cache, callerPath, allocs, firstStored>>
    /\ UNCHANGED <<streamVars, driverVars, instrumentVars>>

\* fs.readFile resolves: a fresh ArrayBuffer is sliced out, stored and returned.
ReadFileResolves(c) ==
    /\ callerPc[c] = "reading"
    /\ LET p == callerPath[c]
           arrayBuffer == allocs[p] + 1
       IN /\ allocs' = [allocs EXCEPT ![p] = arrayBuffer]
          /\ cache' = [cache EXCEPT ![p] = arrayBuffer]
          /\ firstStored' = [firstStored EXCEPT ![p] = IF @ = 0 THEN arrayBuffer ELSE @]
          /\ callerBuf' = [callerBuf EXCEPT ![c] = arrayBuffer]
          /\ callerPc' = [callerPc EXCEPT ![c] = "returned"]
    /\ UNCHANGED <<callerPath, reads>>
    /\ UNCHANGED <<streamVars, driverVars, instrumentVars>>

\* fs.readFile rejects: loadBuffer rejects, the cache is left alone.
ReadFileRejects(c) ==
    /\ callerPc[c] = "reading"
    /\ callerPc' = [callerPc EXCEPT ![c] = "rejected"]
    /\ UNCHANGED <<cache, callerPath, callerBuf, reads, allocs, firstStored>>
    /\ UNCHANGED <<streamVars, driverVars, instrumentVars>>

CacheNext ==
    \/ \E c \in Callers : LoadBufferCall(c)
    \/ \E c \in Callers : ReadFileResolves(c)
    \/ \E c \in Callers : ReadFileRejects(c)

(***************************************************************************)
(* runConversation / processTurn                                           *)
(***************************************************************************)
MaxTurns == 2          \* manifests of 0..MaxTurns turns
TickMs == 150          \* granularity of the clock, in milliseconds

\* const allInterruptsFast = interruptionResults.every(r => r.latencyMs < 300)
InterruptLatencyLimitMs == 300

\* A turn's latency is observed up to one tick beyond the limit it is compared to.
ElapsedCap == InterruptLatencyLimitMs + TickMs

\* RunOptions.timeoutMs (default 30000), here one tick.
TimeoutChoices == {TickMs}

\* The pipeline may yield any number of chunks. A counter is kept up to the value
\* the code or a property tells apart: next() calls up to "more than one",
\* outputChunks.length up to "> 0".
Count(n, most) == IF n < most THEN n + 1 ELSE n

TurnIds == 1..MaxTurns
\* ConversationTurn: role and isInterruption (the flag is only read on user turns).
Turns == {t \in [role : {"user", "agent"}, isInterruption : BOOLEAN] :
             t.role = "agent" => ~t.isInterruption}
Manifests == UNION {[1..n -> Turns] : n \in 0..MaxTurns}
\* ConversationFixture.turns. fixture.expectedBehavior is read only when the
\* verdicts are computed (lines 150-154) and is drawn there.
ConversationFixtures == [turns : Manifests]
\* ExpectedBehavior: whether contextMustBePreserved is non-empty, and
\* interruptionHandled.
ExpectedBehaviors == [contextRequired : BOOLEAN, interruptionHandled : BOOLEAN]

NoVerdict == [expected |-> [contextRequired |-> FALSE, interruptionHandled |-> FALSE],
              contextPreserved |-> TRUE, interruptHandled |-> TRUE]

DriverIdle ==
    /\ fixture = [turns |-> <<>>]
    /\ timeoutMs = TickMs
    /\ pc = "returned"
    /\ turnIdx = 1
    /\ results = <<>>
    /\ outcome = <<>>
    /\ processCalls = <<>>
    /\ iter = [i \in TurnIds |-> "none"]
    /\ pulls = [i \in TurnIds |-> 0]
    /\ outputChunks = [i \in TurnIds |-> 0]
    /\ interruptCalls = [i \in TurnIds |-> 0]
    /\ ack = "none"
    /\ timer = [i \in TurnIds |-> 0 - 1]
    /\ elapsed = 0
    /\ interruptCalledAt = 0
    /\ verdict = NoVerdict

\* runConversation(fixture, pipeline, options) up to the head of its for-loop.
DriverInit ==
    /\ fixture \in ConversationFixtures
    /\ timeoutMs \in TimeoutChoices
    /\ pc = "loop"
    /\ turnIdx = 1
    /\ results = <<>>
    /\ outcome = <<>>
    /\ processCalls = <<>>
    /\ iter = [i \in TurnIds |-> "none"]
    /\ pulls = [i \in TurnIds |-> 0]
    /\ outputChunks = [i \in TurnIds |-> 0]
    /\ interruptCalls = [i \in TurnIds |-> 0]
    /\ ack = "none"
    /\ timer = [i \in TurnIds |-> 0 - 1]
    /\ elapsed = 0
    /\ interruptCalledAt = 0
    /\ verdict = NoVerdict

NumTurns == Len(fixture.turns)
CurTurn == fixture.turns[turnIdx]

\* Variant: the role test is dropped, every manifest turn is processed.
ShouldProcess_AnyRole(turn) == TRUE

\* if (turn.role === 'user')
ShouldProcess(turn) == turn.role = "user"

\* The TurnResult of the interruption branch (lines 205-211).
InterruptedResult(i) ==
    [turn |-> i, outputAudio |-> FALSE, wasInterrupted |-> TRUE, latencyMs |-> elapsed]

\* The TurnResult of the normal branch (lines 232-241):
\* outputAudio = outputChunks.length > 0 ? concatenateBuffers(outputChunks) : undefined
NormalResult(i) ==
    [turn |-> i, outputAudio |-> outputChunks[i] > 0, wasInterrupted |-> FALSE,
     latencyMs |-> elapsed]

\* processTurn returns r; runConversation pushes it (outputTranscript is never
\* set, so no validation is attached) and advances to the next manifest turn.
PushResult(r, how) ==
    /\ results' = Append(results, r)
    /\ outcome' = Append(outcome, how)
    /\ turnIdx' = turnIdx + 1
    /\ pc' = "loop"

\* validateContextPreservation(results, requiredContext)
ValidateContextPreservation(rs, contextRequired) ==
    IF ~contextRequired
    THEN TRUE
    ELSE \A k \in 1..Len(rs) : rs[k].outputAudio \/ rs[k].wasInterrupted

\* validateInterruptHandling(results, fixture)
ValidateInterruptHandling(rs, interruptionHandled) ==
    IF ~interruptionHandled
    THEN TRUE
    ELSE /\ \E k \in 1..Len(rs) : rs[k].wasInterrupted
         /\ \A k \in 1..Len(rs) : rs[k].wasInterrupted => rs[k].latencyMs < InterruptLatencyLimitMs

\* runConversation is suspended at an await: only then does the event loop
\* deliver a pipeline event or run a timer callback. The model follows the call
\* until it settles (returned or rejected).
Suspended == pc \in {"sleep", "awaitFirst", "awaitAck", "awaitRace"}
\* processTurn is between its startTime and its endTime.
Measuring == pc \in {"awaitFirst", "awaitAck", "awaitRace"}

\* for (const turn of fixture.turns): an agent turn is skipped.
SkipAgentTurn ==
    /\ pc = "loop"
    /\ turnIdx <= NumTurns
    /\ ~ShouldProcess(CurTurn)
    /\ turnIdx' = turnIdx + 1
    /\ UNCHANGED <<fixture, timeoutMs, pc, results, outcome, processCalls, iter, pulls,
                   outputChunks, interruptCalls, ack, timer, elapsed, verdict, interruptCalledAt>>
    /\ UNCHANGED <<streamVars, cacheVars, instrumentVars>>

\* A user turn: `if (turn.delayBeforeMs && simulateRealtime) await sleep(...)`.
BeginUserTurn ==
    /\ pc = "loop"
    /\ turnIdx <= NumTurns
    /\ ShouldProcess(CurTurn)
    /\ \E delayed \in BOOLEAN : pc' = IF delayed THEN "sleep" ELSE "processTurn"
    /\ UNCHANGED <<fixture, timeoutMs, turnIdx, results, outcome, processCalls, iter, pulls,
                   outputChunks, interruptCalls, ack, timer, elapsed, verdict, interruptCalledAt>>
    /\ UNCHANGED <<streamVars, cacheVars, instrumentVars>>

DelayElapses ==
    /\ pc = "sleep"
    /\ pc' = "processTurn"
    /\ UNCHANGED <<fixture, timeoutMs, turnIdx, results, outcome, processCalls, iter, pulls,
                   outputChunks, interruptCalls, ack, timer, elapsed, verdict, interruptCalledAt>>
    /\ UNCHANGED <<streamVars, cacheVars, instrumentVars>>

\* processTurn, interruption branch, up to `await iterator.next()` (lines 172-196).
StartInterruptionTurn ==
    /\ pc = "processTurn"
    /\ CurTurn.isInterruption
    /\ elapsed' = 0
    /\ processCalls' = Append(processCalls, turnIdx)
    /\ iter' = [iter EXCEPT ![turnIdx] = "pending"]
    /\ pulls' = [pulls EXCEPT ![turnIdx] = 1]
    /\ pc' = "awaitFirst"
    /\ UNCHANGED <<fixture, timeoutMs, turnIdx, results, outcome, outputChunks,
                   interruptCalls, ack, timer, verdict, interruptCalledAt>>
    /\ UNCHANGED <<streamVars, cacheVars, instrumentVars>>

\* processTurn, normal branch, up to `await Promise.race(...)` (lines 172-226):
\* the timeout is armed, the for-await loop calls process() and its first next().
StartNormalTurn ==
    /\ pc = "processTurn"
    /\ ~CurTurn.isInterruption
    /\ elapsed' = 0
    /\ timer' = [timer EXCEPT ![turnIdx] = timeoutMs]
    /\ processCalls' = Append(processCalls, turnIdx)
    /\ iter' = [iter EXCEPT ![turnIdx] = "pending"]
    /\ pulls' = [pulls EXCEPT ![turnIdx] = 1]
    /\ pc' = "awaitRace"
    /\ UNCHANGED <<fixture, timeoutMs, turnIdx, results, outcome, outputChunks,
                   interruptCalls, ack, verdict, interruptCalledAt>>
    /\ UNCHANGED <<streamVars, cacheVars, instrumentVars>>

\* Variant: after the first chunk the driver interrupts but keeps iterating.
FirstChunkArrives_KeepsPulling ==
    /\ pc = "awaitFirst"
    /\ iter[turnIdx] = "pending"
    /\ outputChunks' = [outputChunks EXCEPT ![turnIdx] = Count(@, 1)]
    /\ pulls' = [pulls EXCEPT ![turnIdx] = Count(@, 2)]
    /\ interruptCalls' = [interruptCalls EXCEPT ![turnIdx] = @ + 1]
    /\ ack' = "pending"
    /\ interruptCalledAt' = elapsed
    /\ pc' = "awaitAck"
    /\ UNCHANGED <<fixture, timeoutMs, turnIdx, results, outcome, processCalls, iter,
                   timer, elapsed, verdict>>
    /\ UNCHANGED <<streamVars, cacheVars, instrumentVars>>

\* Lines 196-202: the first next() settles with a chunk; it is kept and
\* pipeline.interrupt() is called.
FirstChunkArrives ==
    /\ pc = "awaitFirst"
    /\ iter[turnIdx] = "pending"
    /\ iter' = [iter EXCEPT ![turnIdx] = "idle"]
    /\ outputChunks' = [outputChunks EXCEPT ![turnIdx] = Count(@, 1)]
    /\ interruptCalls' = [interruptCalls EXCEPT ![turnIdx] = @ + 1]
    /\ ack' = "pending"
    /\ interruptCalledAt' = elapsed
    /\ pc' = "awaitAck"
    /\ UNCHANGED <<fixture, timeoutMs, turnIdx, results, outcome, processCalls, pulls,
                   timer, elapsed, verdict>>
    /\ UNCHANGED <<streamVars, cacheVars, instrumentVars>>

\* Lines 196-202: the first next() reports done; pipeline.interrupt() is called.
FirstPullEnds ==
    /\ pc = "awaitFirst"
    /\ iter[turnIdx] = "pending"
    /\ iter' = [iter EXCEPT ![turnIdx] = "ended"]
    /\ interruptCalls' = [interruptCalls EXCEPT ![turnIdx] = @ + 1]
    /\ ack' = "pending"
    /\ interruptCalledAt' = elapsed
    /\ pc' = "awaitAck"
    /\ UNCHANGED <<fixture, timeoutMs, turnIdx, results, outcome, processCalls, pulls,
                   outputChunks, timer, elapsed, verdict>>
    /\ UNCHANGED <<streamVars, cacheVars, instrumentVars>>

\* Line 196: the first next() rejects (process() throws, or the fixture could not
\* be loaded); nothing catches it, so processTurn and runConversation reject.
FirstPullRejects ==
    /\ pc = "awaitFirst"
    /\ iter[turnIdx] = "pending"
    /\ iter' = [iter EXCEPT ![turnIdx] = "failed"]
    /\ pc' = "rejected"
    /\ UNCHANGED <<fixture, timeoutMs, turnIdx, results, outcome, processCalls, pulls,
                   outputChunks, interruptCalls, ack, timer, elapsed, verdict, interruptCalledAt>>
    /\ UNCHANGED <<streamVars, cacheVars, instrumentVars>>

\* Lines 202-211: interrupt() resolves.
InterruptResolves ==
    /\ pc = "awaitAck"
    /\ ack = "pending"
    /\ ack' = "none"
    /\ PushResult(InterruptedResult(turnIdx), "Interrupted")
    /\ UNCHANGED <<fixture, timeoutMs, processCalls, iter, pulls, outputChunks,
                   interruptCalls, timer, elapsed, verdict, interruptCalledAt>>
    /\ UNCHANGED <<streamVars, cacheVars, instrumentVars>>

\* Line 202: interrupt() rejects; nothing catches it.
InterruptRejects ==
    /\ pc = "awaitAck"
    /\ ack = "pending"
    /\ ack' = "none"
    /\ pc' = "rejected"
    /\ UNCHANGED <<fixture, timeoutMs, turnIdx, results, outcome, processCalls, iter, pulls,
                   outputChunks, interruptCalls, timer, elapsed, verdict, interruptCalledAt>>
    /\ UNCHANGED <<streamVars, cacheVars, instrumentVars>>

IsLoopTurn(i) ==
    /\ i <= NumTurns
    /\ ~fixture.turns[i].isInterruption

\* The race of turn i is still being awaited by processTurn.
Awaited(i) == pc = "awaitRace" /\ turnIdx = i

\* Lines 221-223: the for-await loop of turn i receives a chunk, pushes it and
\* calls next() again. The loop runs whether or not the race is still awaited.
LoopChunkArrives(i) ==
    /\ Suspended
    /\ IsLoopTurn(i)
    /\ iter[i] = "pending"
    /\ outputChunks' = [outputChunks EXCEPT ![i] = Count(@, 1)]
    /\ pulls' = [pulls EXCEPT ![i] = Count(@, 2)]
    /\ UNCHANGED <<fixture, timeoutMs, pc, turnIdx, results, outcome, processCalls, iter,
                   interruptCalls, ack, timer, elapsed, verdict, interruptCalledAt>>
    /\ UNCHANGED <<streamVars, cacheVars, instrumentVars>>

\* Lines 221-241: the output sequence ends; processingPromise resolves and, if
\* the race is still awaited, wins it.
LoopEnds(i) ==
    /\ Suspended
    /\ IsLoopTurn(i)
    /\ iter[i] = "pending"
    /\ iter' = [iter EXCEPT ![i] = "ended"]
    /\ IF Awaited(i)
       THEN PushResult(NormalResult(i), "Completed")
       ELSE UNCHANGED <<results, outcome, turnIdx, pc>>
    /\ UNCHANGED <<fixture, timeoutMs, processCalls, pulls, outputChunks, interruptCalls,
                   ack, timer, elapsed, verdict, interruptCalledAt>>
    /\ UNCHANGED <<streamVars, cacheVars, instrumentVars>>

\* Lines 221-241: next() rejects; processingPromise rejects and, if the race is
\* still awaited, the catch block logs the error.
LoopRejects(i) ==
    /\ Suspended
    /\ IsLoopTurn(i)
    /\ iter[i] = "pending"
    /\ iter' = [iter EXCEPT ![i] = "failed"]
    /\ IF Awaited(i)
       THEN PushResult(NormalResult(i), "Failed")
       ELSE UNCHANGED <<results, outcome, turnIdx, pc>>
    /\ UNCHANGED <<fixture, timeoutMs, processCalls, pulls, outputChunks, interruptCalls,
                   ack, timer, elapsed, verdict, interruptCalledAt>>
    /\ UNCHANGED <<streamVars, cacheVars, instrumentVars>>

\* Variant: the timer fires but its callback does not reject the race.
TimeoutFires_NoReject(i) ==
    /\ Suspended
    /\ timer[i] = 0
    /\ timer' = [timer EXCEPT ![i] = 0 - 1]
    /\ UNCHANGED <<fixture, timeoutMs, pc, turnIdx, results, outcome, processCalls, iter,
                   pulls, outputChunks, interruptCalls, ack, elapsed, verdict, interruptCalledAt>>
    /\ UNCHANGED <<streamVars, cacheVars, instrumentVars>>

\* Lines 216-218, 226-241: the setTimeout callback rejects timeoutPromise; if the
\* race is still awaited it loses, the catch block logs, and the result is built.
TimeoutFires(i) ==
    /\ Suspended
    /\ timer[i] = 0
    /\ timer' = [timer EXCEPT ![i] = 0 - 1]
    /\ IF Awaited(i)
       THEN PushResult(NormalResult(i), "TimedOut")
       ELSE UNCHANGED <<results, outcome, turnIdx, pc>>
    /\ UNCHANGED <<fixture, timeoutMs, processCalls, iter, pulls, outputChunks,
                   interruptCalls, ack, elapsed, verdict, interruptCalledAt>>
    /\ UNCHANGED <<streamVars, cacheVars, instrumentVars>>

\* Time passes while the event loop is idle and no armed timer is due.
Tick ==
    /\ Suspended
    /\ \A i \in TurnIds : timer[i] # 0
    /\ \/ Measuring /\ elapsed < ElapsedCap
       \/ \E i \in TurnIds : timer[i] > 0
    /\ elapsed' = IF Measuring /\ elapsed < ElapsedCap
                  THEN elapsed + TickMs ELSE elapsed
    /\ timer' = [i \in TurnIds |-> IF timer[i] > 0 THEN Max(timer[i] - TickMs, 0) ELSE timer[i]]
    /\ UNCHANGED <<fixture, timeoutMs, pc, turnIdx, results, outcome, processCalls, iter,
                   pulls, outputChunks, interruptCalls, ack, verdict, interruptCalledAt>>
    /\ UNCHANGED <<streamVars, cacheVars, instrumentVars>>

\* Lines 143-157: the loop is over; the verdicts are computed and returned.
\* (totalDurationMs, averageLatencyMs and p95LatencyMs are functions of the
\* clock and of results[k].latencyMs and are not stored.)
ReturnConversation ==
    /\ pc = "loop"
    /\ turnIdx > NumTurns
    /\ \E e \in ExpectedBehaviors :
           verdict' = [expected |-> e,
                       contextPreserved |->
                           ValidateContextPreservation(results, e.contextRequired),
                       interruptHandled |->
                           ValidateInterruptHandling(results, e.interruptionHandled)]
    /\ pc' = "returned"
    /\ UNCHANGED <<fixture, timeoutMs, turnIdx, results, outcome, processCalls, iter, pulls,
                   outputChunks, interruptCalls, ack, timer, elapsed, interruptCalledAt>>
    /\ UNCHANGED <<streamVars, cacheVars, instrumentVars>>

DriverNext ==
    \/ SkipAgentTurn
    \/ BeginUserTurn
    \/ DelayElapses
    \/ StartInterruptionTurn
    \/ StartNormalTurn
    \/ FirstChunkArrives
    \/ FirstPullEnds
    \/ FirstPullRejects
    \/ InterruptResolves
    \/ InterruptRejects
    \/ \E i \in TurnIds : LoopChunkArrives(i)
    \/ \E i \in TurnIds : LoopEnds(i)
    \/ \E i \in TurnIds : LoopRejects(i)
    \/ \E i \in TurnIds : TimeoutFires(i)
    \/ Tick
    \/ ReturnConversation

(***************************************************************************)
(* calculateStats and LatencyMeasurer                                      *)
(***************************************************************************)
MaxClock == 2          \* performance.now() ranges over 1..MaxClock
MaxSamples == 2        \* measurements are opened while fewer samples are stored
MaxStatLen == 3        \* calculateStats is applied to lists of 0..MaxStatLen values,
MaxStatValue == 3      \* each in 0..MaxStatValue,
MaxRamp == 20          \* and to the lists 10k, ..., 20, 10 for k in 1..MaxRamp

\* An optional value: undefined is <<>>, the value v is <<v>>.
None == <<>>
Some(v) == <<v>>
\* JavaScript truthiness of an optional number.
Truthy(x) == x # None /\ x[1] # 0

Range(s) == {s[i] : i \in 1..Len(s)}
RECURSIVE Sum(_)
Sum(s) == IF s = <<>> THEN 0 ELSE Head(s) + Sum(Tail(s))

\* Array.prototype.sort((a, b) => a - b) on a copy: ascending order, built by
\* inserting each element behind the elements not greater than it.
RECURSIVE Insert(_, _)
Insert(x, s) ==
    IF s = <<>> THEN <<x>>
    ELSE IF x < Head(s) THEN <<x>> \o s
    ELSE <<Head(s)>> \o Insert(x, Tail(s))
\* Variant: the copy is not sorted.
Sort_AsGiven(s) == s
RECURSIVE Sort(_)
Sort(s) == IF s = <<>> THEN <<>> ELSE Insert(s[Len(s)], Sort(SubSeq(s, 1, Len(s) - 1)))

\* Variant: the index of the nearest-rank percentile, ceil(n * p / 100) - 1.
PercentileIndex_NearestRank(n, p) == ((n * p + 99) \div 100) - 1

\* Math.floor(sorted.length * 0.95) and Math.floor(sorted.length * 0.99), as a
\* 0-based index. The product is computed in binary floating point; for every
\* length up to 200000 its floor equals the floor of the exact product n * p / 100.
PercentileIndex(n, p) == (n * p) \div 100

\* calculateStats(values). The mean is the exact rational <<sum, n>>; the
\* standard deviation is given by its square, the rational
\* <<n * sum(v^2) - sum(v)^2, n^2>>.
CalculateStats(values) ==
    IF Len(values) = 0
    THEN [min |-> 0, max |-> 0, mean |-> <<0, 1>>, median |-> 0, p95 |-> 0, p99 |-> 0,
          stdDevSquared |-> <<0, 1>>]
    ELSE LET sorted == Sort(values)
             n == Len(values)
             sum == Sum(values)
             sumSq == Sum([i \in 1..n |-> values[i] * values[i]])
         IN [min |-> sorted[1],
             max |-> sorted[n],
             mean |-> <<sum, n>>,
             median |-> sorted[(n \div 2) + 1],
             p95 |-> sorted[PercentileIndex(n, 95) + 1],
             p99 |-> sorted[PercentileIndex(n, 99) + 1],
             stdDevSquared |-> <<n * sumSq - sum * sum, n * n>>]

\* percentile(values, p) of the driver (conversation-runner.ts:60-65):
\* index = Math.ceil((p / 100) * sorted.length) - 1, read at Math.max(0, index).
Percentile(values, p) ==
    IF Len(values) = 0 THEN 0
    ELSE LET sorted == Sort(values)
             index == ((p * Len(sorted) + 99) \div 100) - 1
         IN sorted[Max(0, index) + 1]

Ramp(n) == [i \in 1..n |-> 10 * (n + 1 - i)]
StatInputs ==
    UNION {[1..n -> 0..MaxStatValue] : n \in 0..MaxStatLen} \cup {Ramp(n) : n \in 1..MaxRamp}
StatsIdle ==
    /\ statValues = <<>>
    /\ stats = Some(CalculateStats(<<>>))
    /\ p95LatencyMs = Some(Percentile(<<>>, 95))

\* A caller holds a list of values and has not called calculateStats yet.
StatsInit ==
    /\ statValues \in StatInputs
    /\ stats = None
    /\ p95LatencyMs = None

CalculateStatsCall ==
    /\ stats = None
    /\ stats' = Some(CalculateStats(statValues))
    /\ UNCHANGED <<statValues, p95LatencyMs>>
    /\ UNCHANGED <<streamVars, cacheVars, driverVars, measurerVars, validatorVars, toolVars>>

\* p95LatencyMs: percentile(latencies, 95) (conversation-runner.ts:156, 320)
PercentileCall ==
    /\ p95LatencyMs = None
    /\ p95LatencyMs' = Some(Percentile(statValues, 95))
    /\ UNCHANGED <<statValues, stats>>
    /\ UNCHANGED <<streamVars, cacheVars, driverVars, measurerVars, validatorVars, toolVars>>

StatsNext ==
    \/ CalculateStatsCall
    \/ PercentileCall

\* The component names (the code has 'stt' | 'llm' | 'tts' | 's2s').
Components == {"stt"}
ComponentStart(c) == c \o "_start"
ComponentEnd(c) == c \o "_end"
\* if (name === 'first_byte' || name === 'first_audio_chunk')
FirstByteNames == {"first_byte", "first_audio_chunk"}
\* The names a caller passes to mark(); "note" is any name the measurer gives
\* no meaning to.
CallerMarkNames == FirstByteNames \cup {"note"}
\* The names calculateMetrics searches the marks for (lines 185-186).
ComponentMarkNames ==
    {ComponentStart(c) : c \in Components} \cup {ComponentEnd(c) : c \in Components}
\* audioInputDurationMs as passed to startMeasurement.
InputDurations == {None, Some(1)}
\* audioOutputDurationMs as passed to endMeasurement (measure() passes none).
OutputDurations == {None}

\* currentMeasurement. Its marks array is only ever searched for the first mark
\* of a component name (marks.find, lines 185-186), so it is kept as: component
\* mark name -> timestamp of the first mark of that name. Of the marks named
\* 'first_byte' or 'first_audio_chunk' the timestamp of the first one pushed is
\* kept as firstOutputMark.
\* currentMeasurement = null
NoMeasurement ==
    [open |-> FALSE, marks |-> [n \in ComponentMarkNames |-> None], startTime |-> 0,
     firstByteTime |-> None, endTime |-> None, audioInputDuration |-> None,
     audioOutputDuration |-> None, firstOutputMark |-> None]
NoMetrics ==
    [timeToFirstByteMs |-> 0, totalProcessingMs |-> 0, audioInputDurationMs |-> 0,
     audioOutputDurationMs |-> 0, processingRatio |-> 0,
     componentMetrics |-> [c \in Components |-> None]]
Returned(kind, value) == [kind |-> kind, value |-> value]

\* new LatencyMeasurer()
MeasurerInit ==
    /\ mClock = 1
    /\ mCurrent = NoMeasurement
    /\ mSamples = <<>>
    /\ mReturn = Returned("void", NoMetrics)

\* The body of mark(name) once a measurement is known to be open (lines 118-129).
PushMark(cur, name, now) ==
    [cur EXCEPT !.marks = [n \in ComponentMarkNames |->
                              IF n = name /\ @[n] = None THEN Some(now) ELSE @[n]],
                !.firstByteTime = IF name \in FirstByteNames THEN Some(now) ELSE @,
                !.firstOutputMark = IF name \in FirstByteNames /\ @ = None
                                    THEN Some(now) ELSE @]

\* calculateMetrics() (lines 172-201) on an open measurement.
CalculateMetrics(cur, now) ==
    LET totalProcessingMs ==
            (IF Truthy(cur.endTime) THEN cur.endTime[1] ELSE now) - cur.startTime
        timeToFirstByteMs ==
            IF Truthy(cur.firstByteTime)
            THEN cur.firstByteTime[1] - cur.startTime
            ELSE totalProcessingMs
        componentLatency(c) ==
            LET startMark == cur.marks[ComponentStart(c)]
                endMark == cur.marks[ComponentEnd(c)]
            IN IF startMark # None /\ endMark # None
               THEN Some(endMark[1] - startMark[1])
               ELSE None
    IN [timeToFirstByteMs |-> timeToFirstByteMs,
        totalProcessingMs |-> totalProcessingMs,
        audioInputDurationMs |->
            IF Truthy(cur.audioInputDuration) THEN cur.audioInputDuration[1] ELSE 0,
        audioOutputDurationMs |->
            IF Truthy(cur.audioOutputDuration) THEN cur.audioOutputDuration[1] ELSE 0,
        \* totalProcessingMs / audioInputDuration: the durations drawn divide
        \* every elapsed time, so the quotient is exact.
        processingRatio |->
            IF Truthy(cur.audioInputDuration)
            THEN totalProcessingMs \div cur.audioInputDuration[1]
            ELSE 0,
        componentMetrics |-> [c \in Components |-> componentLatency(c)]]

\* Variant: startMeasurement also empties the sample list.
StartMeasurement_ClearsSamples(audioInputDurationMs) ==
    /\ Len(mSamples) < MaxSamples
    /\ mCurrent' = PushMark([NoMeasurement EXCEPT !.open = TRUE,
                                                  !.startTime = mClock,
                                                  !.audioInputDuration = audioInputDurationMs],
                            "start", mClock)
    /\ mSamples' = <<>>
    /\ mReturn' = Returned("void", NoMetrics)
    /\ UNCHANGED mClock
    /\ UNCHANGED <<streamVars, cacheVars, driverVars, statsVars, validatorVars, toolVars>>

\* startMeasurement(audioInputDurationMs?) (lines 100-107): currentMeasurement is
\* assigned whether or not a measurement is open.
StartMeasurement(audioInputDurationMs) ==
    /\ Len(mSamples) < MaxSamples
    /\ mCurrent' = PushMark([NoMeasurement EXCEPT !.open = TRUE,
                                                  !.startTime = mClock,
                                                  !.audioInputDuration = audioInputDurationMs],
                            "start", mClock)
    /\ mReturn' = Returned("void", NoMetrics)
    /\ UNCHANGED <<mClock, mSamples>>
    /\ UNCHANGED <<streamVars, cacheVars, driverVars, statsVars, validatorVars, toolVars>>

\* mark(name) (lines 112-130); markComponentStart / markComponentEnd call it
\* with `${component}_start` / `${component}_end`.
Mark(name) ==
    /\ IF ~mCurrent.open
       THEN /\ mReturn' = Returned("warned", NoMetrics)
            /\ UNCHANGED mCurrent
       ELSE /\ mCurrent' = PushMark(mCurrent, name, mClock)
            /\ mReturn' = Returned("void", NoMetrics)
    /\ UNCHANGED <<mClock, mSamples>>
    /\ UNCHANGED <<streamVars, cacheVars, driverVars, statsVars, validatorVars, toolVars>>

MarkComponentStart(component) == Mark(ComponentStart(component))
MarkComponentEnd(component) == Mark(ComponentEnd(component))

\* endMeasurement(audioOutputDurationMs?) (lines 149-167).
EndMeasurement(audioOutputDurationMs) ==
    /\ IF ~mCurrent.open
       THEN /\ mReturn' = Returned("null", NoMetrics)
            /\ UNCHANGED <<mCurrent, mSamples>>
       ELSE LET closing == PushMark([mCurrent EXCEPT !.endTime = Some(mClock),
                                                      !.audioOutputDuration =
                                                          audioOutputDurationMs],
                                    "end", mClock)
                metrics == CalculateMetrics(closing, mClock)
            IN /\ mSamples' = Append(mSamples, metrics)
               /\ mCurrent' = NoMeasurement
               /\ mReturn' = Returned("metrics", metrics)
    /\ UNCHANGED mClock
    /\ UNCHANGED <<streamVars, cacheVars, driverVars, statsVars, validatorVars, toolVars>>

\* getReport() (lines 206-239).
GetReport ==
    /\ LET n == Len(mSamples)
           componentValues(c) ==
               LET defined == {i \in 1..n : mSamples[i].componentMetrics[c] # None}
                   RECURSIVE take(_)
                   take(i) == IF i > n THEN <<>>
                              ELSE IF i \in defined
                                   THEN <<mSamples[i].componentMetrics[c][1]>> \o take(i + 1)
                                   ELSE take(i + 1)
               IN take(1)
       IN mReturn' = Returned("report",
              [totalSamples |-> n,
               timeToFirstByte |->
                   CalculateStats([i \in 1..n |-> mSamples[i].timeToFirstByteMs]),
               totalProcessing |->
                   CalculateStats([i \in 1..n |-> mSamples[i].totalProcessingMs]),
               processingRatio |->
                   CalculateStats([i \in 1..n |-> mSamples[i].processingRatio]),
               componentMetrics |->
                   [c \in Components |->
                       IF Len(componentValues(c)) > 0
                       THEN Some(CalculateStats(componentValues(c)))
                       ELSE None]])
    /\ UNCHANGED <<mClock, mCurrent, mSamples>>
    /\ UNCHANGED <<streamVars, cacheVars, driverVars, statsVars, validatorVars, toolVars>>

\* reset() (lines 286-290).
Reset ==
    /\ mSamples' = <<>>
    /\ mCurrent' = NoMeasurement
    /\ mReturn' = Returned("void", NoMetrics)
    /\ UNCHANGED mClock
    /\ UNCHANGED <<streamVars, cacheVars, driverVars, statsVars, validatorVars, toolVars>>

\* getSamples() (lines 295-297) returns a copy of the list.
GetSamples ==
    /\ mReturn' = Returned("samples", NoMetrics)
    /\ UNCHANGED <<mClock, mCurrent, mSamples>>
    /\ UNCHANGED <<streamVars, cacheVars, driverVars, statsVars, validatorVars, toolVars>>

\* Time passes between two calls.
ClockAdvances ==
    /\ mClock < MaxClock
    /\ mClock' = mClock + 1
    /\ UNCHANGED <<mCurrent, mSamples, mReturn>>
    /\ UNCHANGED <<streamVars, cacheVars, driverVars, statsVars, validatorVars, toolVars>>

MeasurerNext ==
    \/ \E d \in InputDurations : StartMeasurement(d)
    \/ \E name \in CallerMarkNames : Mark(name)
    \/ \E c \in Components : MarkComponentStart(c)
    \/ \E c \in Components : MarkComponentEnd(c)
    \/ \E d \in OutputDurations : EndMeasurement(d)
    \/ GetReport
    \/ Reset
    \/ GetSamples
    \/ ClockAdvances

\* ---- measure(fn, audioInputDurationMs?) (lines 302-315) ----
NumMeasureCalls == 2   \* calls of measure() on the one measurer

MeasureCallIds == 1..NumMeasureCalls
NotCalled ==
    [pc |-> "idle", startedAt |-> 0, endedAt |-> 0, metrics |-> None, overlapped |-> FALSE]

\* No call of measure() has been made.
MeasureIdle == measureCalls = [c \in MeasureCallIds |-> NotCalled]

\* Lines 306-308: this.startMeasurement(audioInputDurationMs), then fn() is
\* called and its promise awaited.
MeasureBegins(c, audioInputDurationMs) ==
    /\ measureCalls[c].pc = "idle"
    /\ mCurrent' = PushMark([NoMeasurement EXCEPT !.open = TRUE,
                                                  !.startTime = mClock,
                                                  !.audioInputDuration = audioInputDurationMs],
                            "start", mClock)
    /\ mReturn' = Returned("void", NoMetrics)
    /\ LET inFlight == {o \in MeasureCallIds : measureCalls[o].pc = "awaiting"}
       IN measureCalls' =
              [o \in MeasureCallIds |->
                  IF o = c
                  THEN [NotCalled EXCEPT !.pc = "awaiting", !.startedAt = mClock,
                                         !.overlapped = inFlight # {}]
                  ELSE IF o \in inFlight
                       THEN [measureCalls[o] EXCEPT !.overlapped = TRUE]
                       ELSE measureCalls[o]]
    /\ UNCHANGED <<mClock, mSamples>>
    /\ UNCHANGED <<streamVars, cacheVars, driverVars, statsVars, validatorVars,
                   pipelineVars, codecVars, comparatorVars>>

\* The endMeasurement() of lines 309 and 312, called with no argument: the
\* new values of currentMeasurement and samples, and what it returns.
EndOfMeasure ==
    IF ~mCurrent.open
    THEN [current |-> mCurrent, samples |-> mSamples, metrics |-> None]
    ELSE LET closing == PushMark([mCurrent EXCEPT !.endTime = Some(mClock),
                                                   !.audioOutputDuration = None],
                                 "end", mClock)
             metrics == CalculateMetrics(closing, mClock)
         IN [current |-> NoMeasurement, samples |-> Append(mSamples, metrics),
             metrics |-> Some(metrics)]

\* Lines 308-310: fn() resolves; measure returns { result, metrics }.
MeasureFnResolves(c) ==
    /\ measureCalls[c].pc = "awaiting"
    /\ mCurrent' = EndOfMeasure.current
    /\ mSamples' = EndOfMeasure.samples
    /\ mReturn' = IF EndOfMeasure.metrics = None THEN Returned("null", NoMetrics)
                  ELSE Returned("metrics", EndOfMeasure.metrics[1])
    /\ measureCalls' = [measureCalls EXCEPT ![c].pc = "returned", ![c].endedAt = mClock,
                                            ![c].metrics = EndOfMeasure.metrics]
    /\ UNCHANGED mClock
    /\ UNCHANGED <<streamVars, cacheVars, driverVars, statsVars, validatorVars,
                   pipelineVars, codecVars, comparatorVars>>

\* Lines 311-313: fn() rejects; the measurement is ended and the error rethrown.
MeasureFnRejects(c) ==
    /\ measureCalls[c].pc = "awaiting"
    /\ mCurrent' = EndOfMeasure.current
    /\ mSamples' = EndOfMeasure.samples
    /\ mReturn' = IF EndOfMeasure.metrics = None THEN Returned("null", NoMetrics)
                  ELSE Returned("metrics", EndOfMeasure.metrics[1])
    /\ measureCalls' = [measureCalls EXCEPT ![c].pc = "threw", ![c].endedAt = mClock]
    /\ UNCHANGED mClock
    /\ UNCHANGED <<streamVars, cacheVars, driverVars, statsVars, validatorVars,
                   pipelineVars, codecVars, comparatorVars>>

MeasureNext ==
    \/ \E c \in MeasureCallIds, d \in InputDurations : MeasureBegins(c, d)
    \/ \E c \in MeasureCallIds : MeasureFnResolves(c)
    \/ \E c \in MeasureCallIds : MeasureFnRejects(c)
    \/ ClockAdvances

(***************************************************************************)
(* TranscriptValidator                                                     *)
(***************************************************************************)
MaxTokens == 2         \* texts of 0..MaxTokens tokens over MixedTokens
MaxWords == 3          \* texts of 0..MaxWords words over PlainWords

\* A string is represented by the sequence of its maximal runs of
\* non-whitespace characters (its tokens), each a string; "" is <<>>.
\* Tokens that the normalization changes: by case, by punctuation, as a filler
\* word, as a synonym with a one-word and with a two-word canonical form.
MixedTokens == {"right", "Right", "ok.", "won't"}
\* Words that the default normalization leaves alone.
PlainWords == {"hello", "there", "world"}
\* The two calls of the 'Transcript Validator' tests (IMPLEMENTATION_PLAN.md:470-482),
\* as <<actual, expected>>.
PlanExamples ==
    {<< <<"hello", "world">>, <<"Hello", "World">> >>,
     << <<"hello", "there", "world">>, <<"hello", "beautiful", "world">> >>}

\* replace(/[.,!?;:'"()[\]{}]/g, '') on one token.
StripPunctuation(w) ==
    CASE w = "ok." -> "ok"
      [] w = "won't" -> "wont"
      [] OTHER -> w

\* Variant: case is left as it is.
ToLowerCase_Unchanged(w) == w

\* String.prototype.toLowerCase on one token.
ToLowerCase(w) ==
    CASE w = "Right" -> "right"
      [] w = "Hello" -> "hello"
      [] w = "World" -> "world"
      [] OTHER -> w

FILLER_WORDS ==
    {"um", "uh", "er", "ah", "like", "you know", "actually", "basically",
     "literally", "honestly", "obviously", "right", "so", "well", "anyway"}

\* SYNONYMS, as <<canonical form (its tokens), variants>>.
SYNONYMS ==
    {<< <<"okay">>, {"ok", "k", "alright"} >>,
     << <<"yes">>, {"yeah", "yep", "yup", "uh-huh"} >>,
     << <<"no">>, {"nope", "nah"} >>,
     << <<"cannot">>, {"can't", "cant"} >>,
     << <<"will", "not">>, {"won't", "wont"} >>,
     << <<"it", "is">>, {"it's", "its"} >>,
     << <<"i", "am">>, {"i'm", "im"} >>,
     << <<"they", "are">>, {"they're", "theyre"} >>}

\* The reverse map built by the constructor: variant -> canonical.
SynonymVariants == UNION {s[2] : s \in SYNONYMS}
synonymMap == [v \in SynonymVariants |-> (CHOOSE s \in SYNONYMS : v \in s[2])[1]]

\* text.split(/\s+/).filter(w => w)
SplitWords(text) == SelectSeq(text, LAMBDA w : w # "")

\* words.join(' '): the tokens of the joined string are the tokens of its parts.
RECURSIVE Join(_)
Join(parts) == IF parts = <<>> THEN <<>> ELSE Head(parts) \o Join(Tail(parts))

\* ValidationOptions, a field left out being None.
DefaultThreshold == <<1, 10>>
NoOptions ==
    [wordErrorRateThreshold |-> None, allowSynonyms |-> None, caseSensitive |-> None,
     ignorePunctuation |-> None, ignoreFillerWords |-> None]
\* Thresholds are rationals <<numerator, denominator>>.
ThresholdChoices ==
    {NoOptions,
     [NoOptions EXCEPT !.wordErrorRateThreshold = Some(<<1, 2>>)]}
OptionChoices ==
    ThresholdChoices \cup
    {[NoOptions EXCEPT !.wordErrorRateThreshold = Some(<<0, 1>>)],
     [NoOptions EXCEPT !.wordErrorRateThreshold = Some(<<1, 1>>)],
     [NoOptions EXCEPT !.allowSynonyms = Some(FALSE)],
     [NoOptions EXCEPT !.caseSensitive = Some(TRUE)],
     [NoOptions EXCEPT !.ignorePunctuation = Some(FALSE)],
     [NoOptions EXCEPT !.ignoreFillerWords = Some(TRUE)]}

\* A destructuring default: `{ field = dflt } = options`.
OrDefault(x, dflt) == IF x = None THEN dflt ELSE x[1]

\* normalize(text, options) (lines 126-161).
Normalize(text, options) ==
    LET unpunctuated ==
            IF options.ignorePunctuation
            THEN [i \in DOMAIN text |-> StripPunctuation(text[i])]
            ELSE text
        normalized ==
            IF ~options.caseSensitive
            THEN [i \in DOMAIN unpunctuated |-> ToLowerCase(unpunctuated[i])]
            ELSE unpunctuated
        split == SplitWords(normalized)
        kept ==
            IF options.ignoreFillerWords
            THEN SelectSeq(split, LAMBDA w : ToLowerCase(w) \notin FILLER_WORDS)
            ELSE split
        mapped ==
            [i \in DOMAIN kept |->
                IF options.allowSynonyms /\ ToLowerCase(kept[i]) \in DOMAIN synonymMap
                THEN synonymMap[ToLowerCase(kept[i])]
                ELSE <<kept[i]>>]
    IN Join(mapped)

\* 'x'.repeat(k), as a list of operation letters.
Repeat(x, k) == [i \in 1..k |-> x]

\* Variant: the first row and column of dp and ops are left at 0 and ''.
InitialMatrix_Unset(m, n) == [c \in (0..m) \X (0..n) |-> [dp |-> 0, ops |-> <<>>]]

\* dp and ops after the two initialisation loops (lines 177-188), as one table
\* indexed by <<i, j>>.
InitialMatrix(m, n) ==
    [c \in (0..m) \X (0..n) |->
        IF c[2] = 0 THEN [dp |-> c[1], ops |-> Repeat("d", c[1])]
        ELSE IF c[1] = 0 THEN [dp |-> c[2], ops |-> Repeat("i", c[2])]
        ELSE [dp |-> 0, ops |-> <<>>]]

\* The nested loops of lines 191-213 from cell <<i, j>> on, in the order the
\* code fills the cells.
RECURSIVE FillMatrix(_, _, _, _, _)
FillMatrix(actualWords, expectedWords, table, i, j) ==
    IF i > Len(actualWords) THEN table
    ELSE IF j > Len(expectedWords)
         THEN FillMatrix(actualWords, expectedWords, table, i + 1, 1)
    ELSE LET substitution == table[<<i - 1, j - 1>>].dp + 1
             insertion == table[<<i, j - 1>>].dp + 1
             deletion == table[<<i - 1, j>>].dp + 1
             cell ==
                 IF actualWords[i] = expectedWords[j]
                 THEN [dp |-> table[<<i - 1, j - 1>>].dp,
                       ops |-> Append(table[<<i - 1, j - 1>>].ops, "m")]
                 ELSE IF substitution <= insertion /\ substitution <= deletion
                      THEN [dp |-> substitution,
                            ops |-> Append(table[<<i - 1, j - 1>>].ops, "s")]
                 ELSE IF insertion <= deletion
                      THEN [dp |-> insertion, ops |-> Append(table[<<i, j - 1>>].ops, "i")]
                 ELSE [dp |-> deletion, ops |-> Append(table[<<i - 1, j>>].ops, "d")]
         IN FillMatrix(actualWords, expectedWords, [table EXCEPT ![<<i, j>>] = cell],
                       i, j + 1)

\* Variant: calculateWER without the early return for an empty expected text.
CalculateWER_NoEmptyCase(actual, expected) ==
    LET actualWords == SplitWords(actual)
        expectedWords == SplitWords(expected)
        m == Len(actualWords)
        n == Len(expectedWords)
        table == FillMatrix(actualWords, expectedWords, InitialMatrix(m, n), 1, 1)
    IN [wer |-> <<table[<<m, n>>].dp, n>>, operations |-> table[<<m, n>>].ops]

\* calculateWER(actual, expected) (lines 166-219). wer is the exact rational
\* <<distance, n>>.
CalculateWER(actual, expected) ==
    LET actualWords == SplitWords(actual)
        expectedWords == SplitWords(expected)
        m == Len(actualWords)
        n == Len(expectedWords)
    IN IF n = 0
       THEN [wer |-> <<IF m > 0 THEN 1 ELSE 0, 1>>, operations |-> <<>>]
       ELSE LET table == FillMatrix(actualWords, expectedWords, InitialMatrix(m, n), 1, 1)
            IN [wer |-> <<table[<<m, n>>].dp, n>>, operations |-> table[<<m, n>>].ops]

\* words[idx] for a 0-based idx; undefined beyond the end.
WordAt(words, idx) == IF idx < Len(words) THEN Some(words[idx + 1]) ELSE None

\* The loop of findDifferences (lines 236-269) from the given indices on.
RECURSIVE ReplayOperations(_, _, _, _, _)
ReplayOperations(actualWords, expectedWords, operations, actualIdx, expectedIdx) ==
    IF operations = <<>> THEN <<>>
    ELSE LET op == Head(operations)
             rest == Tail(operations)
         IN CASE op = "s" ->
                     <<[type |-> "substitution", position |-> expectedIdx,
                        expected |-> WordAt(expectedWords, expectedIdx),
                        actual |-> WordAt(actualWords, actualIdx)]>>
                     \o ReplayOperations(actualWords, expectedWords, rest,
                                         actualIdx + 1, expectedIdx + 1)
              [] op = "i" ->
                     <<[type |-> "deletion", position |-> expectedIdx,
                        expected |-> WordAt(expectedWords, expectedIdx),
                        actual |-> None]>>
                     \o ReplayOperations(actualWords, expectedWords, rest,
                                         actualIdx, expectedIdx + 1)
              [] op = "d" ->
                     <<[type |-> "insertion", position |-> expectedIdx,
                        expected |-> None,
                        actual |-> WordAt(actualWords, actualIdx)]>>
                     \o ReplayOperations(actualWords, expectedWords, rest,
                                         actualIdx + 1, expectedIdx)
              [] OTHER ->
                     ReplayOperations(actualWords, expectedWords, rest,
                                      actualIdx + 1, expectedIdx + 1)

\* Variant: positions counted from 1.
FindDifferences_FromOne(actual, expected, operations) ==
    ReplayOperations(SplitWords(actual), SplitWords(expected), operations, 1, 1)

\* findDifferences(actual, expected, operations) (lines 224-272).
FindDifferences(actual, expected, operations) ==
    ReplayOperations(SplitWords(actual), SplitWords(expected), operations, 0, 0)

CountOf(operations, letter) == Cardinality({k \in DOMAIN operations : operations[k] = letter})

\* Variant: pass requires the WER to be strictly below the threshold.
WithinThreshold_Strict(wer, threshold) == wer[1] * threshold[2] < threshold[1] * wer[2]

\* wer <= wordErrorRateThreshold, on rationals with positive denominators.
WithinThreshold(wer, threshold) == wer[1] * threshold[2] <= threshold[1] * wer[2]

\* validate(actual, expected, options) (lines 74-121).
Validate(actual, expected, options) ==
    LET wordErrorRateThreshold == OrDefault(options.wordErrorRateThreshold, DefaultThreshold)
        flags == [allowSynonyms |-> OrDefault(options.allowSynonyms, TRUE),
                  caseSensitive |-> OrDefault(options.caseSensitive, FALSE),
                  ignorePunctuation |-> OrDefault(options.ignorePunctuation, TRUE),
                  ignoreFillerWords |-> OrDefault(options.ignoreFillerWords, FALSE)]
        actualNormalized == Normalize(actual, flags)
        expectedNormalized == Normalize(expected, flags)
        computed == CalculateWER(actualNormalized, expectedNormalized)
        operations == computed.operations
    IN [pass |-> WithinThreshold(computed.wer, wordErrorRateThreshold),
        wordErrorRate |-> computed.wer,
        actual |-> actualNormalized,
        expected |-> expectedNormalized,
        differences |-> FindDifferences(actualNormalized, expectedNormalized, operations),
        stats |-> [insertions |-> CountOf(operations, "i"),
                   deletions |-> CountOf(operations, "d"),
                   substitutions |-> CountOf(operations, "s"),
                   totalWords |-> Len(SplitWords(expectedNormalized))]]

TextsOver(tokens, longest) == UNION {[1..n -> tokens] : n \in 0..longest}

ValidatorIdle ==
    /\ vActual = <<>>
    /\ vExpected = <<>>
    /\ vOptions = NoOptions
    /\ vResult = Some(Validate(<<>>, <<>>, NoOptions))

\* A caller holds two texts and options and has not called validate yet.
ValidatorInit ==
    /\ \/ /\ vActual \in TextsOver(MixedTokens, MaxTokens)
          /\ vExpected \in TextsOver(MixedTokens, MaxTokens)
          /\ vOptions \in OptionChoices
       \/ /\ vActual \in TextsOver(PlainWords, MaxWords)
          /\ vExpected \in TextsOver(PlainWords, MaxWords)
          /\ vOptions \in ThresholdChoices
       \/ /\ \E example \in PlanExamples : vActual = example[1] /\ vExpected = example[2]
          /\ vOptions = NoOptions
    /\ vResult = None

ValidateCall ==
    /\ vResult = None
    /\ vResult' = Some(Validate(vActual, vExpected, vOptions))
    /\ UNCHANGED <<vActual, vExpected, vOptions>>
    /\ UNCHANGED <<streamVars, cacheVars, driverVars, measurerVars, statsVars, toolVars>>

ValidatorNext == ValidateCall

(***************************************************************************)
(* createMockCascadePipeline (packages/core/test/pipeline.test.ts)         *)
(***************************************************************************)
MaxTtsChunks == 3      \* the TTS adapter yields 0..MaxTtsChunks chunks
MaxInputChunks == 2    \* the audio input yields 0..MaxInputChunks chunks

PipelineIdle ==
    /\ pInput = 0
    /\ pTtsLeft = 0
    /\ pInterrupted = FALSE
    /\ pPc = "done"
    /\ pYielded = 0
    /\ pInterruptCalls = 0
    /\ pYieldedAfterInterrupt = 0

\* const pipeline = createMockCascadePipeline(stt, llm, tts);
\* const iteration = pipeline.process(audioInput()): a generator object whose
\* body has not started.
PipelineInit ==
    /\ pInput \in 0..MaxInputChunks
    /\ pTtsLeft \in 0..MaxTtsChunks
    /\ pInterrupted = FALSE
    /\ pPc = "created"
    /\ pYielded = 0
    /\ pInterruptCalls = 0
    /\ pYieldedAfterInterrupt = 0

\* First next(): the body starts (lines 23-30): the flag is reset, the adapters
\* are chained and the loop awaits the first element of the TTS stream, whose
\* generator in turn awaits the LLM's, the STT's and the audio input.
FirstPull ==
    /\ pPc = "created"
    /\ pInterrupted' = FALSE
    /\ pPc' = "consuming"
    /\ UNCHANGED <<pInput, pTtsLeft, pYielded, pInterruptCalls, pYieldedAfterInterrupt>>
    /\ UNCHANGED <<harnessVars, codecVars, comparatorVars>>

\* stt.stream (lines 50-56) consumes one chunk of the audio input.
InputConsumed ==
    /\ pPc = "consuming"
    /\ pInput > 0
    /\ pInput' = pInput - 1
    /\ UNCHANGED <<pTtsLeft, pInterrupted, pPc, pYielded, pInterruptCalls,
                   pYieldedAfterInterrupt>>
    /\ UNCHANGED <<harnessVars, codecVars, comparatorVars>>

\* The audio input is exhausted: the STT yields its texts, the LLM its response
\* and the TTS generator reaches its first yield (lines 54-55, 69-70, 80-83).
InputExhausted ==
    /\ pPc = "consuming"
    /\ pInput = 0
    /\ pPc' = "awaitingTts"
    /\ UNCHANGED <<pInput, pTtsLeft, pInterrupted, pYielded, pInterruptCalls,
                   pYieldedAfterInterrupt>>
    /\ UNCHANGED <<harnessVars, codecVars, comparatorVars>>

\* Lines 30-32: the TTS stream delivers a chunk; `if (interrupted) break`,
\* otherwise the chunk is yielded to the consumer.
TtsChunkArrives ==
    /\ pPc = "awaitingTts"
    /\ pTtsLeft > 0
    /\ pTtsLeft' = pTtsLeft - 1
    /\ IF pInterrupted
       THEN /\ pPc' = "done"
            /\ UNCHANGED <<pYielded, pYieldedAfterInterrupt>>
       ELSE /\ pPc' = "atYield"
            /\ pYielded' = pYielded + 1
            /\ pYieldedAfterInterrupt' =
                   IF pInterruptCalls > 0 THEN pYieldedAfterInterrupt + 1
                   ELSE pYieldedAfterInterrupt
    /\ UNCHANGED <<pInput, pInterrupted, pInterruptCalls>>
    /\ UNCHANGED <<harnessVars, codecVars, comparatorVars>>

\* Line 30: the TTS stream ends; the loop and the generator end.
TtsEnds ==
    /\ pPc = "awaitingTts"
    /\ pTtsLeft = 0
    /\ pPc' = "done"
    /\ UNCHANGED <<pInput, pTtsLeft, pInterrupted, pYielded, pInterruptCalls,
                   pYieldedAfterInterrupt>>
    /\ UNCHANGED <<harnessVars, codecVars, comparatorVars>>

\* A later next(): the body resumes after the yield and awaits the next element.
NextPull ==
    /\ pPc = "atYield"
    /\ pPc' = "awaitingTts"
    /\ UNCHANGED <<pInput, pTtsLeft, pInterrupted, pYielded, pInterruptCalls,
                   pYieldedAfterInterrupt>>
    /\ UNCHANGED <<harnessVars, codecVars, comparatorVars>>

\* pipeline.interrupt() (lines 36-39), called by the consumer or by any other
\* task while the iteration is suspended or not yet started: the flag is set
\* and the three adapters are interrupted (the mocks resolve at once).
InterruptCall ==
    /\ pPc # "done"
    /\ pInterrupted' = TRUE
    /\ pInterruptCalls' = Count(pInterruptCalls, 2)
    /\ UNCHANGED <<pInput, pTtsLeft, pPc, pYielded, pYieldedAfterInterrupt>>
    /\ UNCHANGED <<harnessVars, codecVars, comparatorVars>>

PipelineNext ==
    \/ FirstPull
    \/ InputConsumed
    \/ InputExhausted
    \/ TtsChunkArrives
    \/ TtsEnds
    \/ NextPull
    \/ InterruptCall

(***************************************************************************)
(* WAV codec: WavUtils.createHeader / floatToInt16 / createWavBuffer       *)
(* (fixture recorder) and parseWavHeader / extractSamples (audio           *)
(* comparator). An ArrayBuffer is the sequence of its bytes (0..255); the  *)
(* byte at offset k is element k + 1. Typed arrays are little-endian (the  *)
(* byte order of the hosts the harness runs on).                           *)
(***************************************************************************)
MaxSampleCount == 2    \* typed arrays of 0..MaxSampleCount samples
MaxFilePayload == 2    \* data chunks of 0..MaxFilePayload bytes in a given file

\* String.prototype.charCodeAt for the characters of the chunk identifiers.
CharCodeAt(ch) ==
    CASE ch = " " -> 32
      [] ch = "A" -> 65
      [] ch = "E" -> 69
      [] ch = "F" -> 70
      [] ch = "I" -> 73
      [] ch = "L" -> 76
      [] ch = "N" -> 78
      [] ch = "O" -> 79
      [] ch = "R" -> 82
      [] ch = "S" -> 83
      [] ch = "T" -> 84
      [] ch = "V" -> 86
      [] ch = "W" -> 87
      [] ch = "X" -> 88
      [] ch = "a" -> 97
      [] ch = "d" -> 100
      [] ch = "f" -> 102
      [] ch = "m" -> 109
      [] ch = "t" -> 116

\* The character codes of a string, given as the sequence of its characters.
CharCodes(string) == [i \in 1..Len(string) |-> CharCodeAt(string[i])]

RIFF == <<"R", "I", "F", "F">>
WAVE == <<"W", "A", "V", "E">>
FmtId == <<"f", "m", "t", " ">>
DataId == <<"d", "a", "t", "a">>
ListId == <<"L", "I", "S", "T">>

\* The bytes DataView.setUint16 / setUint32 (little-endian) store.
Uint16Bytes(n) == <<n % 256, (n \div 256) % 256>>
Uint32Bytes(n) == <<n % 256, (n \div 256) % 256, (n \div 65536) % 256,
                    (n \div 16777216) % 256>>

\* The bytes of one Int16Array element (two's complement, little-endian).
Int16Bytes(v) == Uint16Bytes((v + 65536) % 65536)

\* Storing `bytes` at `offset` of the buffer `buf` (DataView.setUint8/16/32,
\* Uint8Array.prototype.set), for a range that fits.
SetBytes(buf, offset, bytes) ==
    [i \in 1..Len(buf) |->
        IF i > offset /\ i <= offset + Len(bytes) THEN bytes[i - offset] ELSE buf[i]]

\* new ArrayBuffer(n): n zero bytes.
ZeroBuffer(n) == [i \in 1..n |-> 0]

\* DataView.getUint8 / getUint16 / getUint32 / getInt16 (little-endian), for an
\* offset within the buffer.
GetUint8(buf, offset) == buf[offset + 1]
GetUint16(buf, offset) == buf[offset + 1] + 256 * buf[offset + 2]
GetUint32(buf, offset) ==
    buf[offset + 1] + 256 * buf[offset + 2] + 65536 * buf[offset + 3]
        + 16777216 * buf[offset + 4]
GetInt16(buf, offset) ==
    LET u == GetUint16(buf, offset) IN IF u >= 32768 THEN u - 65536 ELSE u

\* Variant: the outer size counts the whole file.
RiffChunkSize_WholeFile(dataLength) == 44 + dataLength

\* Line 52: the size stored in the RIFF header.
RiffChunkSize(dataLength) == 36 + dataLength

\* WavUtils.createHeader(dataLength, sampleRate, channels, bitDepth).
CreateHeader(dataLength, sampleRate, channels, bitDepth) ==
    LET byteRate == (sampleRate * channels * bitDepth) \div 8
        blockAlign == (channels * bitDepth) \div 8
        h0 == ZeroBuffer(44)
        h1 == SetBytes(h0, 0, CharCodes(RIFF))
        h2 == SetBytes(h1, 4, Uint32Bytes(RiffChunkSize(dataLength)))
        h3 == SetBytes(h2, 8, CharCodes(WAVE))
        h4 == SetBytes(h3, 12, CharCodes(FmtId))
        h5 == SetBytes(h4, 16, Uint32Bytes(16))
        h6 == SetBytes(h5, 20, Uint16Bytes(1))
        h7 == SetBytes(h6, 22, Uint16Bytes(channels))
        h8 == SetBytes(h7, 24, Uint32Bytes(sampleRate))
        h9 == SetBytes(h8, 28, Uint32Bytes(byteRate))
        h10 == SetBytes(h9, 32, Uint16Bytes(blockAlign))
        h11 == SetBytes(h10, 34, Uint16Bytes(bitDepth))
        h12 == SetBytes(h11, 36, CharCodes(DataId))
    IN SetBytes(h12, 40, Uint32Bytes(dataLength))

\* A Float32Array element is the rational <<numerator, denominator>>.
\* Line 87-88: clamp to [-1, 1], scale by 0x8000 or 0x7FFF; the store into the
\* Int16Array drops the fraction (toward zero).
FloatToInt16Sample(x) ==
    LET num == IF x[1] > x[2] THEN x[2] ELSE IF x[1] < 0 - x[2] THEN 0 - x[2] ELSE x[1]
    IN IF num < 0
       THEN 0 - (((0 - num) * 32768) \div x[2])
       ELSE (num * 32767) \div x[2]

\* A typed array is [type, buffer, begin, length, values]: an Int16Array is the
\* view of `length` elements starting at element `begin` (byteOffset / 2) of an
\* underlying `buffer` of 16-bit values; a Float32Array is given by its `values`.
\* WavUtils.floatToInt16: a new Int16Array owning its buffer.
FloatToInt16(samples) ==
    [buffer |-> [i \in 1..Len(samples.values) |-> FloatToInt16Sample(samples.values[i])],
     begin |-> 0, length |-> Len(samples.values)]

RECURSIVE Concat(_)
Concat(seqs) == IF seqs = <<>> THEN <<>> ELSE Head(seqs) \o Concat(Tail(seqs))

\* new Uint8Array(int16Samples.buffer): the bytes of the whole underlying buffer.
BufferBytes(view) == Concat([i \in 1..Len(view.buffer) |-> Int16Bytes(view.buffer[i])])

\* WavUtils.createWavBuffer(samples, sampleRate = 16000, channels = 1). The
\* result is [thrown, buffer]: Uint8Array.prototype.set throws a RangeError
\* when the source does not fit behind offset 44.
CreateWavBuffer(samples, sampleRate, channels) ==
    LET int16Samples == IF samples.type = "Float32Array" THEN FloatToInt16(samples)
                        ELSE [buffer |-> samples.buffer, begin |-> samples.begin,
                              length |-> samples.length]
        dataLength == int16Samples.length * 2
        header == CreateHeader(dataLength, OrDefault(sampleRate, 16000),
                               OrDefault(channels, 1), 16)
        wavBuffer == SetBytes(ZeroBuffer(44 + dataLength), 0, header)
        source == BufferBytes(int16Samples)
    IN IF 44 + Len(source) > Len(wavBuffer)
       THEN [thrown |-> "RangeError", buffer |-> <<>>]
       ELSE [thrown |-> "none", buffer |-> SetBytes(wavBuffer, 44, source)]

\* The result of parseWavHeader: the header fields, or the error thrown.
HeaderError(kind) ==
    [thrown |-> kind, sampleRate |-> 0, channels |-> 0, bitDepth |-> 0,
     dataOffset |-> 0, dataLength |-> 0]

\* Lines 50-79: the scan for the data chunk, from `dataOffset`.
RECURSIVE FindDataChunk(_, _)
FindDataChunk(buf, dataOffset) ==
    IF dataOffset < Len(buf) - 8
    THEN LET chunkId == SubSeq(buf, dataOffset + 1, dataOffset + 4)
             chunkSize == GetUint32(buf, dataOffset + 4)
         IN IF chunkId = CharCodes(DataId)
            THEN [dataOffset |-> dataOffset + 8, dataLength |-> chunkSize]
            ELSE FindDataChunk(buf, dataOffset + 8 + chunkSize)
    ELSE [dataOffset |-> 44, dataLength |-> Len(buf) - 44]

\* parseWavHeader(buffer). A DataView read beyond the buffer throws a RangeError.
ParseWavHeader(buf) ==
    IF Len(buf) < 4 THEN HeaderError("RangeError")
    ELSE IF SubSeq(buf, 1, 4) # CharCodes(RIFF) THEN HeaderError("Error")
    ELSE IF Len(buf) < 36 THEN HeaderError("RangeError")
    ELSE LET found == FindDataChunk(buf, 12)
         IN [thrown |-> "none",
             sampleRate |-> GetUint32(buf, 24),
             channels |-> GetUint16(buf, 22),
             bitDepth |-> GetUint16(buf, 34),
             dataOffset |-> found.dataOffset,
             dataLength |-> found.dataLength]

\* Line 95 / 97: one decoded sample, the rational <<numerator, denominator>>.
DecodeSample(buf, offset, bitDepth) ==
    IF bitDepth = 16 THEN <<GetInt16(buf, offset), 32768>>
    ELSE <<GetUint8(buf, offset) - 128, 128>>

\* extractSamples(buffer): [thrown, samples]. samplesCount = dataLength /
\* (bitDepth / 8) need not be an integer: the Float32Array has floor(samplesCount)
\* elements while the loop runs for every i < samplesCount. A depth other than
\* 8 and 16 leaves the array at 0. A negative or infinite length and a read
\* beyond the buffer throw a RangeError.
ExtractSamples(buf) ==
    LET header == ParseWavHeader(buf)
        length == (header.dataLength * 8) \div header.bitDepth
        bytesPerSample == header.bitDepth \div 8
        iterations == (header.dataLength + bytesPerSample - 1) \div bytesPerSample
        lastRead == header.dataOffset + iterations * bytesPerSample
    IN IF header.thrown # "none" THEN [thrown |-> header.thrown, samples |-> <<>>]
       ELSE IF header.dataLength < 0 THEN [thrown |-> "RangeError", samples |-> <<>>]
       ELSE IF header.bitDepth = 0
            THEN IF header.dataLength = 0
                 THEN [thrown |-> "none", samples |-> <<>>]
                 ELSE [thrown |-> "RangeError", samples |-> <<>>]
       ELSE IF header.bitDepth \notin {8, 16}
            THEN [thrown |-> "none", samples |-> [i \in 1..length |-> <<0, 1>>]]
       ELSE IF iterations > 0 /\ lastRead > Len(buf)
            THEN [thrown |-> "RangeError", samples |-> <<>>]
       ELSE [thrown |-> "none",
             samples |-> [i \in 1..length |->
                 DecodeSample(buf, header.dataOffset + (i - 1) * bytesPerSample,
                              header.bitDepth)]]

\* Lines 92-99: the byte offsets the loop of extractSamples reads through the
\* DataView, one bitDepth / 8 wide read per i < samplesCount.
SampleReads(buf) ==
    LET header == ParseWavHeader(buf)
        bytesPerSample == header.bitDepth \div 8
        iterations == (header.dataLength + bytesPerSample - 1) \div bytesPerSample
    IN IF header.thrown # "none" \/ header.bitDepth \notin {8, 16} THEN {}
       ELSE {header.dataOffset + k : k \in 0..(iterations * bytesPerSample - 1)}

\* ---- arguments and files of the model ----
Int16Values == {0 - 32768, 0 - 2, 0, 1, 32767}
FloatValues == {<<0 - 2, 1>>, <<0 - 1, 2>>, <<0, 1>>, <<1, 2>>, <<1, 1>>}
SeqsUpTo(S, n) == UNION {[1..k -> S] : k \in 0..n}

\* Int16Arrays: every view of an underlying buffer of up to MaxSampleCount
\* elements (a view that spans its buffer, a subarray, an empty view).
Int16ArraysOver(b) ==
    {[type |-> "Int16Array", buffer |-> b, begin |-> w[1], length |-> w[2],
      values |-> <<>>] :
        w \in {v \in (0..Len(b)) \X (0..Len(b)) : v[1] + v[2] <= Len(b)}}
Int16Arrays == UNION {Int16ArraysOver(b) : b \in SeqsUpTo(Int16Values, MaxSampleCount)}
Float32Arrays ==
    {[type |-> "Float32Array", buffer |-> <<>>, begin |-> 0, length |-> Len(x),
      values |-> x] : x \in SeqsUpTo(FloatValues, MaxSampleCount)}

\* The arguments of createWavBuffer; None is an omitted argument.
EncodeArgs ==
    {[samples |-> x, sampleRate |-> r, channels |-> c] :
        x \in Int16Arrays \cup Float32Arrays,
        r \in {None, Some(8000)},
        c \in {None, Some(2)}}

\* A RIFF file given by its layout: the two identifiers of the outer header,
\* the order of its chunks, the fields of the format chunk and the payload of
\* the data chunk. A chunk is its identifier, the length of its body and the
\* body, padded to an even length.
ChunkBytes(id, body) ==
    CharCodes(id) \o Uint32Bytes(Len(body)) \o body
        \o (IF Len(body) % 2 = 1 THEN <<0>> ELSE <<>>)
FmtBody(l) ==
    Uint16Bytes(1) \o Uint16Bytes(l.channels) \o Uint32Bytes(l.sampleRate)
        \o Uint32Bytes((l.sampleRate * l.channels * l.bitDepth) \div 8)
        \o Uint16Bytes((l.channels * l.bitDepth) \div 8) \o Uint16Bytes(l.bitDepth)
LayoutChunk(l, kind) ==
    CASE kind = "fmt" -> ChunkBytes(FmtId, FmtBody(l))
      [] kind = "data" -> ChunkBytes(DataId, l.payload)
      [] kind = "LIST" -> ChunkBytes(ListId, CharCodes(<<"I", "N", "F", "O">>))
LayoutBody(l) == Concat([k \in 1..Len(l.order) |-> LayoutChunk(l, l.order[k])])
LayoutBytes(l) ==
    CharCodes(l.riff) \o Uint32Bytes(4 + Len(LayoutBody(l))) \o CharCodes(l.wave)
        \o LayoutBody(l)

ChunkOrders == {<<"fmt", "data">>, <<"fmt", "LIST", "data">>, <<"LIST", "fmt", "data">>,
                <<"fmt", "data", "LIST">>}
WavLayouts ==
    [riff : {RIFF, <<"R", "I", "F", "X">>},
     wave : {WAVE, <<"A", "V", "I", " ">>},
     order : ChunkOrders,
     sampleRate : {16000},
     channels : {1, 2},
     bitDepth : {8, 16, 24},
     payload : SeqsUpTo({0, 255}, MaxFilePayload)]

CodecIdle ==
    /\ wArgs = None
    /\ wFile = None
    /\ wBuffer = None
    /\ wThrown = "none"
    /\ wHeader = None
    /\ wSamples = None

\* Either createWavBuffer is about to be called, or a file has been read.
CodecInit ==
    /\ \/ /\ wArgs \in {Some(a) : a \in EncodeArgs}
          /\ wFile = None
          /\ wBuffer = None
       \/ /\ wArgs = None
          /\ wFile \in {Some(l) : l \in WavLayouts}
          /\ wBuffer = Some(LayoutBytes(wFile[1]))
    /\ wThrown = "none"
    /\ wHeader = None
    /\ wSamples = None

\* const buffer = WavUtils.createWavBuffer(samples, sampleRate, channels)
CreateWavBufferCall ==
    /\ wArgs # None
    /\ wBuffer = None
    /\ wThrown = "none"
    /\ LET made == CreateWavBuffer(wArgs[1].samples, wArgs[1].sampleRate, wArgs[1].channels)
       IN /\ wThrown' = made.thrown
          /\ wBuffer' = IF made.thrown = "none" THEN Some(made.buffer) ELSE None
    /\ UNCHANGED <<wArgs, wFile, wHeader, wSamples>>
    /\ UNCHANGED <<harnessVars, pipelineVars, comparatorVars>>

\* parseWavHeader(buffer)
ParseWavHeaderCall ==
    /\ wBuffer # None
    /\ wHeader = None
    /\ wHeader' = Some(ParseWavHeader(wBuffer[1]))
    /\ UNCHANGED <<wArgs, wFile, wBuffer, wThrown, wSamples>>
    /\ UNCHANGED <<harnessVars, pipelineVars, comparatorVars>>

\* extractSamples(buffer)
ExtractSamplesCall ==
    /\ wBuffer # None
    /\ wSamples = None
    /\ wSamples' = Some(ExtractSamples(wBuffer[1]))
    /\ UNCHANGED <<wArgs, wFile, wBuffer, wThrown, wHeader>>
    /\ UNCHANGED <<harnessVars, pipelineVars, comparatorVars>>

CodecNext ==
    \/ CreateWavBufferCall
    \/ ParseWavHeaderCall
    \/ ExtractSamplesCall

(***************************************************************************)
(* AudioComparator.compare (audio comparator). A JavaScript number is      *)
(* [k, n, d]: the rational n / d in lowest terms (k = "num"), NaN, or      *)
(* an infinity of sign n. The decimal constants of the code (0.5, 0.3,     *)
(* 0.2, 0.7, 0.8, 0.1) are taken as the exact decimals; a square root that *)
(* is not rational is rounded down to a multiple of 1 / SqrtGrid.          *)
(***************************************************************************)
MaxCompareLen == 2     \* compared buffers hold 0..MaxCompareLen samples
SqrtGrid == 1000       \* precision of an irrational square root

RECURSIVE GCD(_, _)
GCD(a, b) == IF b = 0 THEN a ELSE GCD(b, a % b)
AbsInt(n) == IF n < 0 THEN 0 - n ELSE n

NaN == [k |-> "NaN", n |-> 0, d |-> 1]
Infinity(sign) == [k |-> "Infinity", n |-> sign, d |-> 1]
Q(n, d) ==
    LET s == IF d < 0 THEN 0 - 1 ELSE 1
        g == GCD(AbsInt(n), AbsInt(d))
    IN [k |-> "num", n |-> (s * n) \div g, d |-> (s * d) \div g]
Zero == Q(0, 1)
One == Q(1, 1)
IsNaN(x) == x.k = "NaN"
IsInfinite(x) == x.k = "Infinity"
Sign(x) == IF x.n > 0 THEN 1 ELSE IF x.n < 0 THEN 0 - 1 ELSE 0

\* x + y, -x, x - y, x * y, x / y
Add(x, y) ==
    IF IsNaN(x) \/ IsNaN(y) THEN NaN
    ELSE IF IsInfinite(x) THEN (IF IsInfinite(y) /\ y.n # x.n THEN NaN ELSE x)
    ELSE IF IsInfinite(y) THEN y
    ELSE Q(x.n * y.d + y.n * x.d, x.d * y.d)
Neg(x) == [x EXCEPT !.n = 0 - x.n]
Sub(x, y) == Add(x, Neg(y))
Mul(x, y) ==
    IF IsNaN(x) \/ IsNaN(y) THEN NaN
    ELSE IF IsInfinite(x) \/ IsInfinite(y)
         THEN (IF Sign(x) * Sign(y) = 0 THEN NaN ELSE Infinity(Sign(x) * Sign(y)))
    ELSE Q(x.n * y.n, x.d * y.d)
Div(x, y) ==
    IF IsNaN(x) \/ IsNaN(y) THEN NaN
    ELSE IF IsInfinite(x)
         THEN (IF IsInfinite(y) THEN NaN
               ELSE Infinity(IF Sign(y) < 0 THEN 0 - x.n ELSE x.n))
    ELSE IF IsInfinite(y) THEN Zero
    ELSE IF y.n = 0 THEN (IF x.n = 0 THEN NaN ELSE Infinity(Sign(x)))
    ELSE Q(x.n * y.d, x.d * y.n)

\* x < y, x >= y, x <= y, x > y, x === y (every comparison with NaN is false)
Lt(x, y) ==
    IF IsNaN(x) \/ IsNaN(y) \/ x = y THEN FALSE
    ELSE IF IsInfinite(x) THEN x.n < 0
    ELSE IF IsInfinite(y) THEN y.n > 0
    ELSE x.n * y.d < y.n * x.d
Ge(x, y) == ~IsNaN(x) /\ ~IsNaN(y) /\ ~Lt(x, y)
Le(x, y) == Ge(y, x)
Gt(x, y) == Lt(y, x)

\* Math.max, Math.min, Math.abs, Math.sqrt
MathMax(x, y) == IF IsNaN(x) \/ IsNaN(y) THEN NaN ELSE IF Lt(x, y) THEN y ELSE x
MathMin(x, y) == IF IsNaN(x) \/ IsNaN(y) THEN NaN ELSE IF Lt(y, x) THEN y ELSE x
MathAbs(x) == [x EXCEPT !.n = AbsInt(x.n)]
RECURSIVE RootBetween(_, _, _)
RootBetween(n, lo, hi) ==
    IF lo = hi THEN lo
    ELSE LET mid == (lo + hi + 1) \div 2
         IN IF mid * mid <= n THEN RootBetween(n, mid, hi) ELSE RootBetween(n, lo, mid - 1)
IntegerRoot(n) == RootBetween(n, 0, Min(n, 46340))
MathSqrt(x) ==
    IF IsNaN(x) THEN NaN
    ELSE IF IsInfinite(x) THEN (IF x.n > 0 THEN x ELSE NaN)
    ELSE IF x.n < 0 THEN NaN
    ELSE LET rn == IntegerRoot(x.n)
             rd == IntegerRoot(x.d)
         IN IF rn * rn = x.n /\ rd * rd = x.d THEN Q(rn, rd)
            ELSE Q(IntegerRoot((x.n * SqrtGrid * SqrtGrid) \div x.d), SqrtGrid)

\* `let sum = 0; for (...) sum += term[i]`: the sum of the terms from..to. The
\* terms are exact, so the sum does not depend on the grouping; halving the
\* range keeps the evaluation shallow for the 512 bins of a spectrum.
RECURSIVE SumRange(_, _, _)
SumRange(term, from, to) ==
    IF from > to THEN Zero
    ELSE IF from = to THEN Add(Zero, term[from])
    ELSE LET mid == (from + to) \div 2
         IN Add(SumRange(term, from, mid), SumRange(term, mid + 1, to))
SumOf(term, count) == SumRange(term, 1, count)

\* calculateRMSE(a, b)
CalculateRMSE(a, b) ==
    LET minLength == Min(Len(a), Len(b))
        squaredError == [i \in 1..minLength |-> Mul(Sub(a[i], b[i]), Sub(a[i], b[i]))]
    IN MathSqrt(Div(SumOf(squaredError, minLength), Q(minLength, 1)))

\* calculateCorrelation(a, b)
CalculateCorrelation(a, b) ==
    LET minLength == Min(Len(a), Len(b))
        meanA == Div(SumOf(a, minLength), Q(minLength, 1))
        meanB == Div(SumOf(b, minLength), Q(minLength, 1))
        diffA == [i \in 1..minLength |-> Sub(a[i], meanA)]
        diffB == [i \in 1..minLength |-> Sub(b[i], meanB)]
        sumProduct == SumOf([i \in 1..minLength |-> Mul(diffA[i], diffB[i])], minLength)
        sumSqA == SumOf([i \in 1..minLength |-> Mul(diffA[i], diffA[i])], minLength)
        sumSqB == SumOf([i \in 1..minLength |-> Mul(diffB[i], diffB[i])], minLength)
        denominator == MathSqrt(Mul(sumSqA, sumSqB))
    IN IF denominator = Zero THEN Zero ELSE Div(sumProduct, denominator)

\* calculateSpectralEnergy(samples) for samples shorter than one window of 1024
\* (every array of the model): numWindows is 0, the energy stays at 0 and is
\* not normalised.
windowSize == 1024
CalculateSpectralEnergy(samples) == [i \in 1..(windowSize \div 2) |-> Zero]

\* The samples of extractSamples as numbers.
AsNumbers(samples) == [i \in 1..Len(samples) |-> Q(samples[i][1], samples[i][2])]

\* compare(audioA, audioB, options): the ComparisonResult, or the error thrown
\* by extractSamples.
Compare(audioA, audioB, options) ==
    LET similarityThreshold == OrDefault(options.similarityThreshold, Q(8, 10))
        allowDurationVariance == OrDefault(options.allowDurationVariance, Q(1, 10))
        useSpectralAnalysis == OrDefault(options.useSpectralAnalysis, FALSE)
        sampleRate == Q(16000, 1)
        extractedA == ExtractSamples(audioA)
        extractedB == ExtractSamples(audioB)
        samplesA == AsNumbers(extractedA.samples)
        samplesB == AsNumbers(extractedB.samples)
        durationA == Mul(Div(Q(Len(samplesA), 1), sampleRate), Q(1000, 1))
        durationB == Mul(Div(Q(Len(samplesB), 1), sampleRate), Q(1000, 1))
        durationDifferenceMs == MathAbs(Sub(durationA, durationB))
        durationVariance == Div(durationDifferenceMs, MathMax(durationA, durationB))
        rmseDifference == CalculateRMSE(samplesA, samplesB)
        correlationCoefficient == CalculateCorrelation(samplesA, samplesB)
        spectralSimilarity ==
            IF useSpectralAnalysis
            THEN Some(CalculateCorrelation(CalculateSpectralEnergy(samplesA),
                                           CalculateSpectralEnergy(samplesB)))
            ELSE None
        rmseScore == MathMax(Zero, Sub(One, Mul(rmseDifference, Q(2, 1))))
        durationScore ==
            Sub(One, MathMin(One, Div(durationVariance, allowDurationVariance)))
        weighted == Add(Add(Mul(MathMax(Zero, correlationCoefficient), Q(5, 10)),
                            Mul(rmseScore, Q(3, 10))),
                        Mul(durationScore, Q(2, 10)))
        weights == Add(Add(Q(5, 10), Q(3, 10)), Q(2, 10))
        base == Div(weighted, weights)
        similarity ==
            IF spectralSimilarity # None
            THEN Add(Mul(base, Q(7, 10)), Mul(MathMax(Zero, spectralSimilarity[1]), Q(3, 10)))
            ELSE base
    IN IF extractedA.thrown # "none" THEN [thrown |-> extractedA.thrown]
       ELSE IF extractedB.thrown # "none" THEN [thrown |-> extractedB.thrown]
       ELSE [thrown |-> "none",
             similarity |-> similarity,
             pass |-> Ge(similarity, similarityThreshold)
                          /\ Le(durationVariance, allowDurationVariance),
             rmseDifference |-> rmseDifference,
             correlationCoefficient |-> correlationCoefficient,
             durationDifferenceMs |-> durationDifferenceMs,
             spectralSimilarity |-> spectralSimilarity]

\* ---- arguments of the model ----
\* 16-bit mono buffers of up to MaxCompareLen samples, as createWavBuffer
\* builds them: silence, constant and varying signals, the empty payload.
CompareValues == {0 - 32768, 0, 16384}
WholeArray(b) ==
    [type |-> "Int16Array", buffer |-> b, begin |-> 0, length |-> Len(b), values |-> <<>>]
ComparableBuffers ==
    {CreateWavBuffer(WholeArray(b), None, None).buffer :
        b \in SeqsUpTo(CompareValues, MaxCompareLen)}
ComparisonOptions ==
    [similarityThreshold : {None, Some(One)},
     allowDurationVariance : {None, Some(Zero)},
     useSpectralAnalysis : {None, Some(TRUE)}]
NoComparison == [thrown |-> "pending"]

ComparatorIdle ==
    /\ cAudioA = <<>>
    /\ cAudioB = <<>>
    /\ cOptions = [similarityThreshold |-> None, allowDurationVariance |-> None,
                   useSpectralAnalysis |-> None]
    /\ cResult = Some(NoComparison)

ComparatorInit ==
    /\ cAudioA \in ComparableBuffers
    /\ cAudioB \in ComparableBuffers
    /\ cOptions \in ComparisonOptions
    /\ cResult = None

\* comparator.compare(audioA, audioB, options)
CompareCall ==
    /\ cResult = None
    /\ cResult' = Some(Compare(cAudioA, cAudioB, cOptions))
    /\ UNCHANGED <<cAudioA, cAudioB, cOptions>>
    /\ UNCHANGED <<harnessVars, pipelineVars, codecVars>>

ComparatorNext == CompareCall

ToolsIdle == PipelineIdle /\ CodecIdle /\ ComparatorIdle /\ MeasureIdle

(***************************************************************************)
(* Specifications                                                          *)
(***************************************************************************)
Init == StreamIdle /\ CacheIdle /\ DriverInit /\ StatsIdle /\ MeasurerInit /\ ValidatorIdle /\ ToolsIdle
Next == DriverNext
Spec == Init /\ [][Next]_vars

\* What the event loop guarantees: a continuation that is ready runs, time
\* passes, and a timer that is due fires. The pipeline is under no obligation:
\* it may leave a next() or an interrupt() unsettled for ever.
Scheduled ==
    \/ SkipAgentTurn
    \/ BeginUserTurn
    \/ DelayElapses
    \/ StartInterruptionTurn
    \/ StartNormalTurn
    \/ ReturnConversation
    \/ Tick
    \/ \E i \in TurnIds : TimeoutFires(i)
FairSpec == Spec /\ WF_vars(Scheduled)

StreamSpecInit == StreamInit /\ CacheIdle /\ DriverIdle /\ StatsIdle /\ MeasurerInit /\ ValidatorIdle /\ ToolsIdle
StreamSpec == StreamSpecInit /\ [][StreamNext]_vars

\* A consumer that keeps pulling, and a generator whose awaits settle.
FairStreamSpec == StreamSpec /\ WF_vars(StreamNext)

CacheSpecInit == StreamIdle /\ CacheInit /\ DriverIdle /\ StatsIdle /\ MeasurerInit /\ ValidatorIdle /\ ToolsIdle

StatsSpecInit == StreamIdle /\ CacheIdle /\ DriverIdle /\ StatsInit /\ MeasurerInit /\ ValidatorIdle /\ ToolsIdle
StatsSpec == StatsSpecInit /\ [][StatsNext]_vars

MeasurerSpecInit == StreamIdle /\ CacheIdle /\ DriverIdle /\ StatsIdle /\ MeasurerInit /\ ValidatorIdle /\ ToolsIdle
MeasurerSpec == MeasurerSpecInit /\ [][MeasurerNext]_vars
\* A measurer that is used through measure() only.
MeasureSpec == MeasurerSpecInit /\ [][MeasureNext]_vars

ValidatorSpecInit == StreamIdle /\ CacheIdle /\ DriverIdle /\ StatsIdle /\ MeasurerInit /\ ValidatorInit /\ ToolsIdle
ValidatorSpec == ValidatorSpecInit /\ [][ValidatorNext]_vars
CacheSpec == CacheSpecInit /\ [][CacheNext]_vars

HarnessIdle ==
    StreamIdle /\ CacheIdle /\ DriverIdle /\ StatsIdle /\ MeasurerInit /\ ValidatorIdle
        /\ MeasureIdle
PipelineSpecInit == HarnessIdle /\ PipelineInit /\ CodecIdle /\ ComparatorIdle
PipelineSpec == PipelineSpecInit /\ [][PipelineNext]_vars
CodecSpecInit == HarnessIdle /\ PipelineIdle /\ CodecInit /\ ComparatorIdle
CodecSpec == CodecSpecInit /\ [][CodecNext]_vars
ComparatorSpecInit == HarnessIdle /\ PipelineIdle /\ CodecIdle /\ ComparatorInit
ComparatorSpec == ComparatorSpecInit /\ [][ComparatorNext]_vars

(***************************************************************************)
(* Properties                                                              *)
(***************************************************************************)
HasResult(i) == \E k \in 1..Len(results) : results[k].turn = i
AllNormal == \A i \in 1..NumTurns : ~fixture.turns[i].isInterruption
IsUser(i) == fixture.turns[i].role = "user"
IsInterruptionTurn(i) == IsUser(i) /\ fixture.turns[i].isInterruption

\* The manifest indices of the user turns, in manifest order.
RECURSIVE UserTurnsUpTo(_)
UserTurnsUpTo(n) ==
    IF n = 0 THEN <<>>
    ELSE IF IsUser(n) THEN Append(UserTurnsUpTo(n - 1), n) ELSE UserTurnsUpTo(n - 1)
UserTurns == UserTurnsUpTo(NumTurns)
ResultTurns == [k \in 1..Len(results) |-> results[k].turn]
IsPrefix(a, b) == Len(a) <= Len(b) /\ a = SubSeq(b, 1, Len(a))

\* C1: iterated to the end without sub-range offsets, the chunks of streamAudio
\* concatenated in order are exactly the data payload of the container, extra
\* chunks between the format and data chunks included.
C1_StreamYieldsExactlyPayload ==
    (gPc = "done" /\ sOptions.startOffset = 0 /\ sOptions.endOffset = NoOffset)
        => assembled = Payload(container)

\* C2: for every positive chunkDurationMs the sequence of streamAudio is finite:
\* a consumer that keeps pulling reaches its end.
C2_StreamIsFinite == <>(gPc \in {"done", "failed"})

\* C3: the results hold one entry per user turn, in manifest order (at every
\* moment the entries are the first user turns of the manifest, at return all of
\* them), and pipeline.process() is only ever called for user-role turns.
C3_ResultsFollowManifest ==
    /\ IsPrefix(ResultTurns, UserTurns)
    /\ pc = "returned" => ResultTurns = UserTurns
    /\ \A k \in 1..Len(processCalls) : IsUser(processCalls[k])
    /\ IsPrefix(processCalls, UserTurns)

\* runConversation returned from a manifest that mixes agent and user turns.
C3_Witness ==
    /\ pc = "returned"
    /\ Len(results) >= 1
    /\ \E i \in 1..NumTurns : ~IsUser(i)
    /\ \E i \in 1..NumTurns : IsUser(i) /\ i > 1

\* C4: on an interruption-flagged turn the driver pulls one element of the output
\* sequence and no more, calls pipeline.interrupt() at most once and only after
\* that pull has settled, and has done both exactly once when the turn has its
\* result.
C4_InterruptionPullsOnceThenInterrupts ==
    \A i \in 1..NumTurns : IsInterruptionTurn(i) =>
        /\ pulls[i] <= 1
        /\ interruptCalls[i] <= 1
        /\ interruptCalls[i] = 1 => (pulls[i] = 1 /\ iter[i] \in {"idle", "ended"})
        /\ HasResult(i) => (pulls[i] = 1 /\ interruptCalls[i] = 1)

\* An interruption turn got its result after one output chunk, and the run went on.
C4_Witness ==
    \E i \in 1..NumTurns :
        /\ IsInterruptionTurn(i)
        /\ HasResult(i)
        /\ outputChunks[i] = 1
        /\ turnIdx > i

C6_TimedOutTurnIsRecordedAsFailure ==
    /\ \A k \in 1..Len(results) :
           outcome[k] = "TimedOut" => ~(results[k].outputAudio \/ results[k].wasInterrupted)
    /\ (/\ pc = "returned"
        /\ verdict.expected.contextRequired
        /\ \E k \in 1..Len(results) : outcome[k] = "TimedOut") => ~verdict.contextPreserved

\* C7: a failure of one turn (fixture not loadable, process() throwing while
\* iterated, interrupt() rejecting) never makes runConversation reject.
C7_TurnFailureNeverRejectsRun == pc # "rejected"

\* C8: the driver's wait for the acknowledgement of interrupt() always ends.
C8_InterruptWaitIsBounded == (pc = "awaitAck") ~> (pc # "awaitAck")

\* C9: once pipeline.process() has been called for a later turn, no next() of an
\* earlier turn's output sequence is outstanding.
C9_NoConsumptionOfEarlierTurn ==
    \A i \in TurnIds : \A j \in TurnIds :
        (i < j /\ iter[j] # "none") => iter[i] # "pending"

\* C10: the cache holds, for each path, the first buffer that was stored for it,
\* the bytes of a path are turned into a buffer only once, and all the calls
\* that returned for a path hold the same buffer.
C10_OverlappingLoadsShareOneBuffer ==
    /\ \A p \in Paths : cache[p] = firstStored[p]
    /\ \A p \in Paths : allocs[p] <= 1
    /\ \A c \in Callers : \A d \in Callers :
           (/\ callerPc[c] = "returned"
            /\ callerPc[d] = "returned"
            /\ callerPath[c] = callerPath[d]) => callerBuf[c] = callerBuf[d]

\* C11: startMeasurement called while a measurement is open ends in an error, and
\* the open measurement is left as it was.
C11_SecondStartSurfacesError ==
    [][(mCurrent.open /\ \E d \in InputDurations : StartMeasurement(d))
           => (mReturn'.kind = "error" /\ mCurrent' = mCurrent)]_vars

\* C12: an endMeasurement with a measurement open closes it, appends exactly one
\* sample (the metrics it returns) behind the samples already stored; an
\* endMeasurement with none open returns null and leaves the samples alone; and
\* no call other than reset changes, reorders or removes a stored sample.
C12_EndAppendsExactlyOneSample ==
    [][/\ \A d \in OutputDurations : EndMeasurement(d) =>
              IF mCurrent.open
              THEN /\ ~mCurrent'.open
                   /\ Len(mSamples') = Len(mSamples) + 1
                   /\ SubSeq(mSamples', 1, Len(mSamples)) = mSamples
                   /\ mReturn'.kind = "metrics"
                   /\ mReturn'.value = mSamples'[Len(mSamples')]
              ELSE /\ mSamples' = mSamples
                   /\ mReturn'.kind = "null"
                   /\ ~mCurrent'.open
       /\ IsPrefix(mSamples, mSamples') \/ Reset]_vars

\* A second sample was just appended behind the first, after marks were recorded.
C12_Witness ==
    /\ Len(mSamples) = 2
    /\ mReturn.kind = "metrics"
    /\ mReturn.value = mSamples[2]
    /\ mSamples[2].componentMetrics["stt"] # None
    /\ mSamples[1].totalProcessingMs # mSamples[2].totalProcessingMs

\* The value at 0-based index k of the ascending-sorted values: the value with
\* at most k values below it and more than k values not above it.
OrderStatistic(values, k) ==
    CHOOSE v \in Range(values) :
        /\ Cardinality({i \in DOMAIN values : values[i] < v}) <= k
        /\ Cardinality({i \in DOMAIN values : values[i] <= v}) > k

\* C13: for n >= 1 values, p95 and p99 are the elements at index floor(n * 95 / 100)
\* and floor(n * 99 / 100) of the ascending-sorted values, both indices lie inside
\* the array, and for the values 10, 20, ..., 100 the p95 is 100.
C13_PercentilesUseFloorIndex ==
    (stats # None /\ Len(statValues) > 0) =>
        LET n == Len(statValues)
            i95 == (n * 95) \div 100
            i99 == (n * 99) \div 100
        IN /\ i95 \in 0..(n - 1)
           /\ i99 \in 0..(n - 1)
           /\ stats[1].p95 = OrderStatistic(statValues, i95)
           /\ stats[1].p99 = OrderStatistic(statValues, i99)
           /\ Range(statValues) = {10 * k : k \in 1..10} /\ n = 10 => stats[1].p95 = 100

\* calculateStats was applied to the values 100, 90, ..., 10.
C13_Witness ==
    /\ stats # None
    /\ statValues = Ramp(10)
    /\ stats[1].p95 = 100
    /\ stats[1].min = 10

\* The elements of a set of numbers in ascending order.
RECURSIVE Ascending(_)
Ascending(S) ==
    IF S = {} THEN <<>>
    ELSE LET least == CHOOSE x \in S : \A y \in S : x <= y
         IN <<least>> \o Ascending(S \ {least})

\* An alignment of a with b pairs some positions of a with as many positions of
\* b, in order. It stands for the edit script that deletes the unpaired words of
\* a, inserts the unpaired words of b and substitutes the paired words that
\* differ; its cost is the number of these edits.
Alignments(a, b) ==
    {al \in (SUBSET (1..Len(a))) \X (SUBSET (1..Len(b))) :
        Cardinality(al[1]) = Cardinality(al[2])}
AlignmentCost(a, b, al) ==
    LET I == Ascending(al[1])
        J == Ascending(al[2])
        k == Len(I)
    IN (Len(a) - k) + (Len(b) - k) + Cardinality({q \in 1..k : a[I[q]] # b[J[q]]})
\* The minimum number of single-word substitutions, insertions and deletions
\* that turn a into b.
MinEdits(a, b) ==
    LET costs == {AlignmentCost(a, b, al) : al \in Alignments(a, b)}
    IN CHOOSE c \in costs : \A d \in costs : c <= d

\* C14: for a non-empty expected word sequence, the distance of calculateWER is
\* the minimum number of unit-cost word edits between the two normalized word
\* sequences, and WER = distance / len(expectedWords).
C14_DistanceIsMinimalEditCount ==
    (vResult # None /\ Len(vResult[1].expected) > 0) =>
        vResult[1].wordErrorRate =
            <<MinEdits(vResult[1].actual, vResult[1].expected), Len(vResult[1].expected)>>

\* Texts of different lengths whose distance is at least 2 and is less than the
\* length of the longer one.
C14_Witness ==
    /\ vResult # None
    /\ Len(vResult[1].expected) >= 2
    /\ Len(vResult[1].actual) >= 2
    /\ Len(vResult[1].actual) # Len(vResult[1].expected)
    /\ vResult[1].wordErrorRate[1] >= 2
    /\ vResult[1].wordErrorRate[1] < Max(Len(vResult[1].actual), Len(vResult[1].expected))

\* C15: when the normalized expected text has no words, WER is 1 if the
\* normalized actual text has a word and 0 if it has none; the WER is never a
\* quotient by zero.
C15_EmptyExpectedGivesOneOrZero ==
    vResult # None =>
        /\ vResult[1].wordErrorRate[2] > 0
        /\ Len(vResult[1].expected) = 0 =>
               vResult[1].wordErrorRate = <<IF Len(vResult[1].actual) > 0 THEN 1 ELSE 0, 1>>

\* An expected text that has a token but normalizes to no word, against an
\* actual text that keeps a word.
C15_Witness ==
    /\ vResult # None
    /\ vExpected # <<>>
    /\ vResult[1].expected = <<>>
    /\ vResult[1].actual # <<>>
    /\ vResult[1].wordErrorRate = <<1, 1>>

\* C16: pass is true exactly when the WER of the normalized texts is at most the
\* threshold, which is 0.10 when the caller gives none.
C16_PassIffWithinThreshold ==
    vResult # None =>
        LET threshold == IF vOptions.wordErrorRateThreshold = None
                         THEN <<1, 10>>
                         ELSE vOptions.wordErrorRateThreshold[1]
            wer == vResult[1].wordErrorRate
        IN vResult[1].pass <=> (wer[1] * threshold[2] <= threshold[1] * wer[2])

\* A WER equal to a positive threshold passes.
C16_Witness ==
    /\ vResult # None
    /\ vOptions.wordErrorRateThreshold = Some(<<1, 2>>)
    /\ vResult[1].wordErrorRate = <<1, 2>>
    /\ vResult[1].pass

\* Two tokens are the same up to letter case.
CasePairs == {<<"Right", "right">>, <<"Hello", "hello">>, <<"World", "world">>}
SameUpToCase(x, y) == x = y \/ <<x, y>> \in CasePairs \/ <<y, x>> \in CasePairs
DefaultNormalization ==
    /\ vOptions.allowSynonyms = None
    /\ vOptions.caseSensitive = None
    /\ vOptions.ignorePunctuation = None
    /\ vOptions.ignoreFillerWords = None

\* C17: with default normalization, texts that differ only in letter case get
\* WER 0, an empty diff list and pass = true.
C17_CaseDifferencesAreIgnored ==
    (/\ vResult # None
     /\ DefaultNormalization
     /\ Len(vActual) = Len(vExpected)
     /\ \A i \in 1..Len(vActual) : SameUpToCase(vActual[i], vExpected[i])) =>
        /\ vResult[1].wordErrorRate[1] = 0
        /\ vResult[1].differences = <<>>
        /\ vResult[1].pass

\* validate("hello world", "Hello World") has returned.
C17_Witness ==
    /\ vResult # None
    /\ vActual = <<"hello", "world">>
    /\ vExpected = <<"Hello", "World">>
    /\ vOptions = NoOptions
    /\ vResult[1].wordErrorRate = <<0, 2>>
    /\ vResult[1].pass

\* The report of exactly one substitution at 1-based word position q of a and e.
OneSubstitutionAt(result, a, e, q) ==
    /\ result.differences = <<[type |-> "substitution", position |-> q - 1,
                               expected |-> Some(e[q]), actual |-> Some(a[q])]>>
    /\ result.stats.substitutions = 1
    /\ result.stats.insertions = 0
    /\ result.stats.deletions = 0
    /\ result.wordErrorRate = <<1, Len(e)>>
DifferAt(a, e) == {q \in 1..Len(a) : a[q] # e[q]}

\* C18 as stated: when the texts given to validate have the same number of words
\* and differ in exactly one word position, validate reports exactly one
\* substitution, at that position, no insertion and no deletion, and
\* WER = 1 / len(expected).
C18_OneDifferingWordAsGiven ==
    (/\ vResult # None
     /\ Len(vActual) = Len(vExpected)
     /\ Cardinality(DifferAt(vActual, vExpected)) = 1) =>
        \A q \in DifferAt(vActual, vExpected) :
            OneSubstitutionAt(vResult[1], vResult[1].actual, vResult[1].expected, q)

\* C18, amended: when the normalized texts have the same number of words and
\* differ in exactly one word position, validate reports exactly one
\* substitution, at that position, no insertion and no deletion, and
\* WER = 1 / len(expected).
C18_OneDifferingNormalizedWord ==
    (/\ vResult # None
     /\ Len(vResult[1].actual) = Len(vResult[1].expected)
     /\ Cardinality(DifferAt(vResult[1].actual, vResult[1].expected)) = 1) =>
        \A q \in DifferAt(vResult[1].actual, vResult[1].expected) :
            OneSubstitutionAt(vResult[1], vResult[1].actual, vResult[1].expected, q)

\* validate("hello there world", "hello beautiful world") has returned.
C18_Witness ==
    /\ vResult # None
    /\ vActual = <<"hello", "there", "world">>
    /\ vExpected = <<"hello", "beautiful", "world">>
    /\ vResult[1].stats.substitutions = 1
    /\ vResult[1].wordErrorRate = <<1, 3>>
    /\ vResult[1].differences[1].position = 1

\* C19: the context-preservation verdict is true exactly when every user turn
\* Completed or was Interrupted; one timed-out or failed turn makes it false,
\* whether or not the expected behaviour lists context terms.
C19_ContextVerdictFollowsTurnOutcomes ==
    pc = "returned" =>
        (verdict.contextPreserved <=>
            \A k \in 1..Len(results) : outcome[k] \in {"Completed", "Interrupted"})

\* C20: the interrupt-handling verdict is true exactly when the latency recorded
\* for every Interrupted turn is at most 300 ms, a latency of exactly 300 ms
\* included.
C20_InterruptVerdictFollowsLatencyBound ==
    pc = "returned" =>
        (verdict.interruptHandled <=>
            \A k \in 1..Len(results) :
                outcome[k] = "Interrupted" => results[k].latencyMs <= InterruptLatencyLimitMs)

\* C21: parseWavHeader fails with a format error, and extractSamples decodes
\* nothing, for every file in which RIFF or WAVE is absent and for every file
\* whose declared bit depth is neither 8 nor 16.
C21_BadMagicOrDepthIsRejected ==
    (wFile # None /\ (wFile[1].riff # RIFF \/ wFile[1].wave # WAVE
                      \/ wFile[1].bitDepth \notin {8, 16})) =>
        /\ wHeader # None => wHeader[1].thrown = "Error"
        /\ wSamples # None => wSamples[1].thrown # "none"

\* A file with both magic identifiers, a supported depth and whole sample frames.
WellFormed(l) ==
    /\ l.riff = RIFF
    /\ l.wave = WAVE
    /\ l.bitDepth \in {8, 16}
    /\ Len(l.payload) % ((l.channels * l.bitDepth) \div 8) = 0

\* The offset of the first byte behind the 8-byte header of the data chunk.
RECURSIVE OffsetBehind(_, _)
OffsetBehind(l, k) ==
    IF l.order[k] = "data" THEN 8
    ELSE Len(LayoutChunk(l, l.order[k])) + OffsetBehind(l, k + 1)
PayloadOffset(l) == 12 + OffsetBehind(l, 1)

\* C22: for every well-formed file, wherever its format and data chunks stand
\* among other chunks, parseWavHeader returns the sample rate, channel count
\* and bit depth of the format chunk, the offset of the first payload byte and
\* the size the data chunk declares.
C22_HeaderFollowsChunks ==
    (wFile # None /\ WellFormed(wFile[1]) /\ wHeader # None) =>
        wHeader[1] = [thrown |-> "none",
                      sampleRate |-> wFile[1].sampleRate,
                      channels |-> wFile[1].channels,
                      bitDepth |-> wFile[1].bitDepth,
                      dataOffset |-> PayloadOffset(wFile[1]),
                      dataLength |-> Len(wFile[1].payload)]

\* C23: the buffer createWavBuffer builds is self-consistent: the data chunk
\* declares 2 bytes per sample, the RIFF header declares 36 bytes more, and the
\* buffer is 44 bytes longer than the payload.
C23_EncodedContainerIsSelfConsistent ==
    (wArgs # None /\ wBuffer # None) =>
        LET payloadLength == 2 * wArgs[1].samples.length
        IN /\ Len(wBuffer[1]) = 44 + payloadLength
           /\ SubSeq(wBuffer[1], 37, 40) = CharCodes(DataId)
           /\ GetUint32(wBuffer[1], 40) = payloadLength
           /\ GetUint32(wBuffer[1], 4) = 36 + payloadLength

\* Two samples have been encoded.
C23_Witness ==
    /\ wArgs # None
    /\ wBuffer # None
    /\ wArgs[1].samples.length = 2
    /\ Len(wBuffer[1]) = 48

\* C24: encoding any Int16Array as mono and decoding the result gives as many
\* samples, each the original sample divided by 32768, in the same order.
C24_Int16MonoRoundTrip ==
    (wArgs # None /\ wArgs[1].samples.type = "Int16Array"
        /\ OrDefault(wArgs[1].channels, 1) = 1) =>
        LET samples == wArgs[1].samples
            original == SubSeq(samples.buffer, samples.begin + 1,
                               samples.begin + samples.length)
        IN /\ wThrown = "none"
           /\ wSamples # None =>
                  /\ wSamples[1].thrown = "none"
                  /\ wSamples[1].samples =
                         [i \in 1..Len(original) |-> <<original[i], 32768>>]

\* C25: for every pair of decodable buffers and every choice of options, the
\* similarity compare returns is a number of [0, 1].
C25_SimilarityWithinUnitInterval ==
    (cResult # None /\ cResult[1].thrown = "none") =>
        /\ Ge(cResult[1].similarity, Zero)
        /\ Le(cResult[1].similarity, One)

\* C26: for a buffer b of at least one sample (silence and constant samples
\* included), compare(b, b) with the default tolerance returns RMSE 0, duration
\* difference 0, correlation 1 and similarity 1, and passes whatever the
\* threshold (at most 1).
C26_IdenticalBuffersScoreOne ==
    (cResult # None /\ cAudioA = cAudioB /\ Len(cAudioA) > 44
        /\ cOptions.allowDurationVariance = None
        /\ cOptions.useSpectralAnalysis = None) =>
        /\ cResult[1].thrown = "none"
        /\ cResult[1].rmseDifference = Zero
        /\ cResult[1].durationDifferenceMs = Zero
        /\ cResult[1].correlationCoefficient = One
        /\ cResult[1].similarity = One
        /\ cResult[1].pass

\* C27: once interrupt() has been called, the iteration of process() obtained
\* before the call yields no further chunk, whenever the call was made.
C27_NoChunkAfterInterrupt == pYieldedAfterInterrupt = 0

\* C28: every chunk streamAudio yields, except the last of the sequence, has
\* exactly sampleRate * (bitDepth / 8) * channels * chunkDurationMs / 1000 bytes,
\* and the last one has at most that many. (The chunk in gChunk is the last one
\* when the loop condition fails after the next increment.)
C28_ChunksHaveNominalSize ==
    gPc \in {"yielding", "suspended"} =>
        LET nominalNum == BytesPerMsNum(sFixture) * sOptions.chunkDurNum
            nominalDen == 1000 * DurDen
            endByte == EndByte(sFixture, sOptions, AudioOf(container))
            isLast == gOffset + ChunkSize(sFixture, sOptions) >= endByte
        IN IF isLast
           THEN Len(gChunk) * nominalDen <= nominalNum
           ELSE Len(gChunk) * nominalDen = nominalNum

\* The payload bytes from floor(s * bytesPerMs) up to, but excluding,
\* min(floor(e * bytesPerMs), payload length).
PayloadRange(c, f, o) ==
    SubSeq(Payload(c), ((BytesPerMsNum(f) * o.startOffset) \div 1000) + 1,
           Min((BytesPerMsNum(f) * o.endOffset) \div 1000, c.dataLen))

\* C29: with a start offset s and an end offset e (0 <= s <= e), the chunks
\* concatenated are exactly the payload bytes of the range [floor(s * bytesPerMs),
\* min(floor(e * bytesPerMs), payload length)), and no byte outside that range
\* is ever yielded.
C29_SubRangeIsPayloadRange ==
    (sOptions.endOffset # NoOffset /\ sOptions.startOffset <= sOptions.endOffset) =>
        /\ IsPrefix(assembled, PayloadRange(container, sFixture, sOptions))
        /\ gPc = "done" => assembled = PayloadRange(container, sFixture, sOptions)

\* C30: a turn whose output sequence completed normally before its time bound
\* has its timeout timer cancelled; in particular, when runConversation returns
\* after turns that all completed normally, no timer the driver started is
\* still pending.
C30_CompletedTurnCancelsTimer ==
    /\ \A k \in 1..Len(results) :
           outcome[k] = "Completed" => timer[results[k].turn] = 0 - 1
    /\ (pc = "returned" /\ \A k \in 1..Len(results) : outcome[k] = "Completed")
           => \A i \in TurnIds : timer[i] = 0 - 1

\* C31: the latency recorded for an Interrupted turn, which is the value the
\* interrupt-handling verdict compares to the limit, is the time from the call
\* of pipeline.interrupt() to its acknowledgement; the wait for the turn's
\* first output element is not part of it.
C31_InterruptLatencyFromCallToAck ==
    [][(pc = "awaitAck" /\ Len(results') = Len(results) + 1)
           => results'[Len(results')].latencyMs = elapsed - interruptCalledAt]_vars

\* C32: whenever extractSamples returns, the number of samples it returns times
\* the bytes per sample equals the payload length the data chunk declares, and
\* every byte it read lies in the payload of that chunk. Stated for the buffers
\* createWavBuffer builds and for RIFF/WAVE files of 8 or 16 bits whose format
\* chunk is followed at once by the data chunk.
C32_DecodedCountMatchesDeclaredPayload ==
    /\ (/\ wFile # None
        /\ wFile[1].riff = RIFF /\ wFile[1].wave = WAVE
        /\ wFile[1].bitDepth \in {8, 16}
        /\ SubSeq(wFile[1].order, 1, 2) = <<"fmt", "data">>
        /\ wSamples # None /\ wSamples[1].thrown = "none") =>
           LET first == PayloadOffset(wFile[1])
               declared == Len(wFile[1].payload)
           IN /\ Len(wSamples[1].samples) * wFile[1].bitDepth = 8 * declared
              /\ SampleReads(wBuffer[1]) \subseteq first..(first + declared - 1)
    /\ (wArgs # None /\ wSamples # None /\ wSamples[1].thrown = "none") =>
           LET declared == GetUint32(wBuffer[1], 40)
           IN /\ Len(wSamples[1].samples) * 2 = declared
              /\ SampleReads(wBuffer[1]) \subseteq 44..(44 + declared - 1)

\* The number of entries of a diff list that have one of the given types.
DiffsOfType(differences, types) ==
    Cardinality({k \in DOMAIN differences : differences[k].type \in types})

\* C33: for every pair of texts, an empty expected text included, the diff
\* list of validate has as many entries as the word-level edit distance of the
\* normalized texts; its entries together with the matched words account for
\* every actual and every expected word once, each entry names the words it
\* consumed, and the positions never decrease.
C33_DiffListCoversEditDistance ==
    vResult # None =>
        LET actual == vResult[1].actual
            expected == vResult[1].expected
            differences == vResult[1].differences
            actualConsumed == DiffsOfType(differences, {"substitution", "insertion"})
            expectedConsumed == DiffsOfType(differences, {"substitution", "deletion"})
        IN /\ Len(differences) = MinEdits(actual, expected)
           /\ Len(actual) - actualConsumed = Len(expected) - expectedConsumed
           /\ Len(actual) >= actualConsumed
           /\ \A k \in DOMAIN differences :
                  /\ differences[k].type \in {"substitution", "insertion"}
                         => differences[k].actual # None
                  /\ differences[k].type \in {"substitution", "deletion"}
                         => differences[k].expected # None
           /\ \A k \in 1..(Len(differences) - 1) :
                  differences[k].position <= differences[k + 1].position

\* C34: in every ValidationResult the operation counts agree with the diff
\* list: stats.insertions is the number of entries of type insertion,
\* stats.deletions of type deletion, stats.substitutions of type substitution.
C34_StatsAgreeWithDiffTypes ==
    vResult # None =>
        /\ vResult[1].stats.insertions = DiffsOfType(vResult[1].differences, {"insertion"})
        /\ vResult[1].stats.deletions = DiffsOfType(vResult[1].differences, {"deletion"})
        /\ vResult[1].stats.substitutions =
               DiffsOfType(vResult[1].differences, {"substitution"})

\* C35: for every list of latencies the p95 the driver reports equals the p95
\* of calculateStats on the same values: both are the element at index
\* floor(n * 95 / 100) of the values in ascending order (0 for no values).
C35_DriverP95EqualsStatsP95 ==
    (stats # None /\ p95LatencyMs # None) =>
        /\ p95LatencyMs[1] = stats[1].p95
        /\ Len(statValues) > 0 =>
               p95LatencyMs[1] = OrderStatistic(statValues, (Len(statValues) * 95) \div 100)

\* C36: when two measure() calls on one measurer overlap, each call that
\* returns hands back metrics that are not null and whose total elapsed time
\* runs from its own start to the completion of its own function, and once
\* both have returned exactly two samples have been appended.
C36_OverlappingMeasuresAreSeparate ==
    /\ \A c \in MeasureCallIds :
           (measureCalls[c].pc = "returned" /\ measureCalls[c].overlapped) =>
               /\ measureCalls[c].metrics # None
               /\ measureCalls[c].metrics[1].totalProcessingMs =
                      measureCalls[c].endedAt - measureCalls[c].startedAt
    /\ (\A c \in MeasureCallIds :
            measureCalls[c].pc = "returned" /\ measureCalls[c].overlapped)
           => Len(mSamples) = NumMeasureCalls

\* C37: every chunk streamAudio yields holds at least one byte, whatever the
\* positive chunk duration and the start and end offsets, an end offset beyond
\* the end of the payload included.
C37_NoEmptyChunk ==
    gPc \in {"yielding", "suspended"} => Len(gChunk) >= 1

\* C38: a measurement closed after one or more first-output marks reports as
\* time-to-first-byte the timestamp of the earliest of them minus its start
\* time, never more than its total elapsed time; closed without such a mark it
\* reports the total elapsed time.
C38_FirstByteIsEarliestMark ==
    [][\A d \in OutputDurations :
           (mCurrent.open /\ EndMeasurement(d)) =>
               LET metrics == mReturn'.value
               IN /\ metrics.timeToFirstByteMs <= metrics.totalProcessingMs
                  /\ metrics.timeToFirstByteMs =
                         IF mCurrent.firstOutputMark # None
                         THEN mCurrent.firstOutputMark[1] - mCurrent.startTime
                         ELSE metrics.totalProcessingMs]_vars

\* C39: for a non-empty list of samples calculateStats returns
\* min <= median <= p95 <= p99 <= max, each of the five a value of the list;
\* for an empty list every statistic is 0.
C39_StatsAreOrderedSampleValues ==
    stats # None =>
        IF Len(statValues) = 0
        THEN stats[1] = [min |-> 0, max |-> 0, mean |-> <<0, 1>>, median |-> 0,
                         p95 |-> 0, p99 |-> 0, stdDevSquared |-> <<0, 1>>]
        ELSE /\ stats[1].min <= stats[1].median
             /\ stats[1].median <= stats[1].p95
             /\ stats[1].p95 <= stats[1].p99
             /\ stats[1].p99 <= stats[1].max
             /\ {stats[1].min, stats[1].median, stats[1].p95, stats[1].p99, stats[1].max}
                    \subseteq Range(statValues)

\* calculateStats was applied to values given in descending order whose
\* minimum, median and p95 differ.
C39_Witness ==
    /\ stats # None
    /\ Len(statValues) >= 3
    /\ statValues[1] > statValues[Len(statValues)]
    /\ stats[1].min < stats[1].median
    /\ stats[1].median < stats[1].p95

====
